---- MODULE Spec2Model ----
(***************************************************************************)
(* Verification model of Search Cobb's text pipeline: the Unifier          *)
(* (bin/make-decomposition-table.js, which generates lib/unifier.js), the  *)
(* Pattern Transformer (lib/regex-transformer.js) and the Migemo engine    *)
(* (lib/jsmigemo.js).                                                      *)
(*                                                                         *)
(* A string is a sequence of characters; a character is a one-letter TLA+  *)
(* string standing for a Unicode code point (see UCD below).               *)
(***************************************************************************)
EXTENDS Integers, Sequences, FiniteSets, TLC

(***************************************************************************)
(* Sequence helpers                                                        *)
(***************************************************************************)
RECURSIVE Flatten(_)
Flatten(ss) == IF ss = <<>> THEN <<>> ELSE Head(ss) \o Flatten(Tail(ss))

RECURSIVE JoinWith(_, _)
JoinWith(ss, sep) ==
    IF ss = <<>> THEN <<>>
    ELSE IF Len(ss) = 1 THEN ss[1]
    ELSE ss[1] \o sep \o JoinWith(Tail(ss), sep)

Last(s) == s[Len(s)]

Count(c, s) == Cardinality({i \in 1..Len(s) : s[i] = c})

RECURSIVE SeqsUpTo(_, _)
SeqsUpTo(S, n) ==
    IF n = 0 THEN {<<>>}
    ELSE LET R == SeqsUpTo(S, n - 1)
         IN  R \cup {Append(r, c) : r \in {q \in R : Len(q) = n - 1}, c \in S}

(***************************************************************************)
(* The slice of the Unicode Character Database the model works on.        *)
(*   a e s 1   U+0061 U+0065 U+0073 U+0031                                 *)
(*   " "       U+0020 SPACE                                                *)
(*   E         U+00E9 e with acute          = 0065 0301                    *)
(*   '         U+0301 COMBINING ACUTE       (Mn, ccc 230)                  *)
(*   K         U+30AB KATAKANA KA                                          *)
(*   G         U+30AC KATAKANA GA           = 30AB 3099                    *)
(*   v         U+3099 COMBINING VOICED MARK (Mn, ccc 8)                    *)
(*   O         U+2460 CIRCLED DIGIT ONE     = <circle> 0031                *)
(*   D         U+00A8 DIAERESIS             = <compat> 0020 0308           *)
(*   u         U+0308 COMBINING DIAERESIS   (Mn, ccc 230)                  *)
(*   p         U+0600 ARABIC NUMBER SIGN    (Prepend)                      *)
(*   H L V     U+AC00 U+1100 U+1161 Hangul syllable GA and its jamo        *)
(*   w x       U+1F469 U+1F3EB              (Extended_Pictographic)        *)
(*   z         U+200D ZERO WIDTH JOINER                                    *)
(*   R         U+1F1E8 REGIONAL INDICATOR C                                *)
(*   n         U+000A LINE FEED             (Control)                      *)
(*   \ . + [ ] ASCII punctuation                                           *)
(*   P B M     U+FF0E U+FF3C U+FF0D fullwidth full stop, reverse solidus,  *)
(*             hyphen-minus                 = <wide> 002E / 005C / 002D    *)
(*   -         U+002D                                                      *)
(***************************************************************************)
Marks == {"'", "v", "u"}
Kana == {"K", "G"}

\* UnicodeData.txt field 5 (decomposition): tag and code points
Decomposition ==
    [c \in {"E", "G", "O", "D", "P", "B", "M"} |->
        CASE c = "E" -> [key |-> "*",      cps |-> <<"e", "'">>]
          [] c = "G" -> [key |-> "*",      cps |-> <<"K", "v">>]
          [] c = "O" -> [key |-> "circle", cps |-> <<"1">>]
          [] c = "D" -> [key |-> "compat", cps |-> <<" ", "u">>]
          [] c = "P" -> [key |-> "wide",   cps |-> <<".">>]
          [] c = "B" -> [key |-> "wide",   cps |-> <<"\\">>]
          [] c = "M" -> [key |-> "wide",   cps |-> <<"-">>]]

HasDecomp(c) == c \in DOMAIN Decomposition

\* Canonical_Combining_Class
Ccc(c) == CASE c = "v" -> 8
            [] c \in {"'", "u"} -> 230
            [] OTHER -> 0

\* Grapheme_Cluster_Break
Gcb(c) == CASE c \in Marks -> "Extend"
            [] c = "z" -> "ZWJ"
            [] c = "p" -> "Prepend"
            [] c = "n" -> "Control"
            [] c = "L" -> "L"
            [] c = "V" -> "V"
            [] c = "H" -> "LV"
            [] c = "R" -> "RI"
            [] OTHER -> "Other"

ExtPict == {"w", "x"}

(***************************************************************************)
(* String.prototype.normalize, as the unifier calls it, on the UCD slice   *)
(***************************************************************************)
\* one canonical (compat = FALSE) or compatibility (compat = TRUE) step
RECURSIVE DecomposeChar(_, _)
DecomposeChar(c, compat) ==
    IF c = "H" THEN <<"L", "V">>
    ELSE IF HasDecomp(c) /\ (compat \/ Decomposition[c].key = "*")
    THEN LET cps == Decomposition[c].cps
         IN  Flatten([i \in 1..Len(cps) |-> DecomposeChar(cps[i], compat)])
    ELSE <<c>>

\* canonical ordering: exchange adjacent non-starters that are out of order
RECURSIVE CanonicalOrder(_)
CanonicalOrder(s) ==
    LET bad == {i \in 1..(Len(s) - 1) : Ccc(s[i + 1]) > 0 /\ Ccc(s[i]) > Ccc(s[i + 1])}
    IN  IF bad = {} THEN s
        ELSE LET i == CHOOSE j \in bad : \A k \in bad : j <= k
             IN  CanonicalOrder([s EXCEPT ![i] = s[i + 1], ![i + 1] = s[i]])

Decompose(s, compat) ==
    CanonicalOrder(Flatten([i \in 1..Len(s) |-> DecomposeChar(s[i], compat)]))

\* primary composites of the slice
PrimaryComposite(a, b) ==
    CASE a = "e" /\ b = "'" -> "E"
      [] a = "K" /\ b = "v" -> "G"
      [] a = "L" /\ b = "V" -> "H"
      [] OTHER -> ""

RECURSIVE ComposeFrom(_, _, _, _)
ComposeFrom(s, i, out, sp) ==
    IF i > Len(s) THEN out
    ELSE LET c == s[i]
             blocked == Len(out) > sp /\ Ccc(out[Len(out)]) >= Ccc(c)
             pc == IF sp = 0 \/ blocked THEN "" ELSE PrimaryComposite(out[sp], c)
         IN  IF pc # "" THEN ComposeFrom(s, i + 1, [out EXCEPT ![sp] = pc], sp)
             ELSE ComposeFrom(s, i + 1, Append(out, c),
                              IF Ccc(c) = 0 THEN Len(out) + 1 ELSE sp)

NFD(s) == Decompose(s, FALSE)
NFC(s) == ComposeFrom(Decompose(s, FALSE), 1, <<>>, 0)
NFKC(s) == ComposeFrom(Decompose(s, TRUE), 1, <<>>, 0)

(***************************************************************************)
(* Intl.Segmenter (granularity grapheme): UAX #29 extended grapheme        *)
(* clusters                                                                *)
(***************************************************************************)
\* GB11: s[1..i] ends in ExtPict Extend* ZWJ
RECURSIVE ExtPictBefore(_, _)
ExtPictBefore(s, i) ==
    IF i < 1 THEN FALSE
    ELSE IF s[i] \in ExtPict THEN TRUE
    ELSE IF Gcb(s[i]) = "Extend" THEN ExtPictBefore(s, i - 1)
    ELSE FALSE

\* GB12/GB13: number of consecutive RI ending at i
RECURSIVE RIRun(_, _)
RIRun(s, i) == IF i < 1 \/ Gcb(s[i]) # "RI" THEN 0 ELSE 1 + RIRun(s, i - 1)

\* TRUE when there is no cluster boundary between s[i] and s[i+1]
NoBreak(s, i) ==
    LET a == Gcb(s[i])
        b == Gcb(s[i + 1])
    IN  IF a = "Control" \/ b = "Control" THEN FALSE                       \* GB4 GB5
        ELSE \/ a = "L" /\ b \in {"L", "V", "LV", "LVT"}                    \* GB6
             \/ a \in {"LV", "V"} /\ b \in {"V", "T"}                       \* GB7
             \/ a \in {"LVT", "T"} /\ b = "T"                               \* GB8
             \/ b \in {"Extend", "ZWJ", "SpacingMark"}                      \* GB9 GB9a
             \/ a = "Prepend"                                               \* GB9b
             \/ a = "ZWJ" /\ s[i + 1] \in ExtPict /\ ExtPictBefore(s, i - 1) \* GB11
             \/ a = "RI" /\ b = "RI" /\ RIRun(s, i) % 2 = 1                 \* GB12 GB13

RECURSIVE SegmentFrom(_, _, _)
SegmentFrom(s, i, cur) ==
    IF i > Len(s) THEN (IF cur = <<>> THEN <<>> ELSE <<cur>>)
    ELSE IF cur # <<>> /\ ~NoBreak(s, i - 1)
    THEN <<cur>> \o SegmentFrom(s, i + 1, <<s[i]>>)
    ELSE SegmentFrom(s, i + 1, Append(cur, s[i]))

\* the sequence of grapheme clusters of s
Segment(s) == SegmentFrom(s, 1, <<>>)

(***************************************************************************)
(* bin/make-decomposition-table.js: classify, fold and the generated map   *)
(***************************************************************************)
IsM(c) == c \in Marks
AllM(d) == \A i \in 1..Len(d) : IsM(d[i])

\* classify() without the test for a kana with a voicing mark
classifyKanaAsLetter(d) ==
    IF Len(d) = 2 /\ ~IsM(d[1]) /\ d[2] = "MIDDLE DOT" THEN "LETTER_WITH_MIDDLE_DOT"
    ELSE IF Len(d) = 2 /\ d[1] = "MODIFIER APOSTROPHE" /\ ~IsM(d[2]) THEN "APOSTROPHE_WITH_LETTER"
    ELSE IF Len(d) = 2 /\ d[1] = "DEGREE SIGN" /\ ~IsM(d[2]) THEN "DEGREE_WITH_LETTER"
    ELSE IF Len(d) = 2 /\ d[1] = " " /\ d[2] # "n" THEN "VISIBLE_DIACRITICAL_MARK"
    ELSE IF Len(d) >= 1 /\ AllM(d) THEN "COMBINING_MARKS"
    ELSE IF Len(d) >= 2 /\ ~IsM(d[1]) /\ AllM(Tail(d)) THEN "LETTER_WITH_COMBINING_MARKS"
    ELSE IF Len(d) >= 2 /\ ~IsM(d[Len(d)]) /\ AllM(SubSeq(d, 1, Len(d) - 1))
         THEN "LETTER_WITH_COMBINING_MARKS_REVERSED"
    ELSE IF Len(d) = 1 /\ d[1] # "n" THEN "SIMPLE_SUBST"
    ELSE "COMPLEX_SUBST"

\* the shape tests of classify(), in the order of the source
classify(d) ==
    IF Len(d) = 2 /\ ~IsM(d[1]) /\ d[2] = "MIDDLE DOT" THEN "LETTER_WITH_MIDDLE_DOT"
    ELSE IF Len(d) = 2 /\ d[1] = "MODIFIER APOSTROPHE" /\ ~IsM(d[2]) THEN "APOSTROPHE_WITH_LETTER"
    ELSE IF Len(d) = 2 /\ d[1] = "DEGREE SIGN" /\ ~IsM(d[2]) THEN "DEGREE_WITH_LETTER"
    ELSE IF Len(d) = 2 /\ d[1] = " " /\ d[2] # "n" THEN "VISIBLE_DIACRITICAL_MARK"
    ELSE IF Len(d) >= 1 /\ AllM(d) THEN "COMBINING_MARKS"
    ELSE IF Len(d) = 2 /\ d[1] \in Kana /\ IsM(d[2]) THEN "COMPLEX_SUBST"
    ELSE IF Len(d) >= 2 /\ ~IsM(d[1]) /\ AllM(Tail(d)) THEN "LETTER_WITH_COMBINING_MARKS"
    ELSE IF Len(d) >= 2 /\ ~IsM(d[Len(d)]) /\ AllM(SubSeq(d, 1, Len(d) - 1))
         THEN "LETTER_WITH_COMBINING_MARKS_REVERSED"
    ELSE IF Len(d) = 1 /\ d[1] # "n" THEN "SIMPLE_SUBST"
    ELSE "COMPLEX_SUBST"

\* fold() returns null for the types that are not folded
NullFold == <<"null">>

foldIndices(type, n) ==
    CASE type \in {"LETTER_WITH_MIDDLE_DOT", "LETTER_WITH_COMBINING_MARKS", "SIMPLE_SUBST"} -> <<1>>
      [] type \in {"APOSTROPHE_WITH_LETTER", "DEGREE_WITH_LETTER",
                   "LETTER_WITH_COMBINING_MARKS_REVERSED"} -> <<2>>
      [] type = "COMPLEX_SUBST" -> [i \in 1..n |-> i]
      [] OTHER -> <<>>

RECURSIVE fold(_)
fold(c) ==
    LET cps == Decomposition[c].cps
        type == classify(cps)
        indices == foldIndices(type, Len(cps))
        part(cp) == IF HasDecomp(cp)
                    THEN (LET f == fold(cp) IN IF f = NullFold THEN <<>> ELSE f)
                    ELSE <<cp>>
    IN  IF type \in {"VISIBLE_DIACRITICAL_MARK", "COMBINING_MARKS"} THEN NullFold
        ELSE Flatten([k \in 1..Len(indices) |-> part(cps[indices[k]])])

\* the generated table: only the entries whose fold is not null
MapKeys == {c \in DOMAIN Decomposition : fold(c) # NullFold}
map == [c \in MapKeys |-> fold(c)]

(***************************************************************************)
(* coreExtractRegex(true) (lib/grapheme-regex.js) and extractCore          *)
(***************************************************************************)
IsControl(c) == Gcb(c) = "Control"
IsPrecore(c) == Gcb(c) = "Prepend"
IsPostcore(t) == \A i \in 1..Len(t) : Gcb(t[i]) \in {"Extend", "ZWJ", "SpacingMark"}

\* L*(?:V+|LV V*|LVT)T*|L+|T+
RECURSIVE StripGcb(_, _)
StripGcb(t, cls) == IF t # <<>> /\ Gcb(t[1]) \in cls THEN StripGcb(Tail(t), cls) ELSE t
IsHangulSyllable(t) ==
    LET r == StripGcb(t, {"L"})
    IN  \/ t # <<>> /\ r = <<>>
        \/ r # <<>> /\ Gcb(r[1]) = "V" /\ StripGcb(StripGcb(r, {"V"}), {"T"}) = <<>>
        \/ r # <<>> /\ Gcb(r[1]) = "LV" /\ StripGcb(StripGcb(Tail(r), {"V"}), {"T"}) = <<>>
        \/ r # <<>> /\ Gcb(r[1]) = "LVT" /\ StripGcb(Tail(r), {"T"}) = <<>>
        \/ t # <<>> /\ StripGcb(t, {"T"}) = <<>>

IsRISequence(t) == Len(t) = 2 /\ Gcb(t[1]) = "RI" /\ Gcb(t[2]) = "RI"

\* Extended_Pictographic (Extend* ZWJ Extended_Pictographic)*
RECURSIVE IsXpictoSequence(_)
IsXpictoSequence(t) ==
    /\ t # <<>>
    /\ t[1] \in ExtPict
    /\ \/ Len(t) = 1
       \/ LET r == StripGcb(Tail(t), {"Extend"})
          IN  Len(r) >= 2 /\ Gcb(r[1]) = "ZWJ" /\ IsXpictoSequence(Tail(r))

\* the core alternatives in the order of gcCore(); the slice has no InCB
\* consonants, so the conjunct cluster (group 6) never matches
CoreGroup(t) ==
    IF IsHangulSyllable(t) THEN 3
    ELSE IF IsRISequence(t) THEN 4
    ELSE IF IsXpictoSequence(t) THEN 5
    ELSE IF Len(t) = 1 /\ ~IsControl(t[1]) THEN 7
    ELSE 0

\* the parses precore* core postcore* of s, as <<k, m, group>>: k precore
\* characters, then a core of m characters matched by alternative group
CoreParses(s) ==
    {p \in {<<km[1], km[2], CoreGroup(SubSeq(s, km[1] + 1, km[1] + km[2]))>> :
               km \in {x \in (0..Len(s)) \X (1..Len(s)) : x[1] + x[2] <= Len(s)}} :
        /\ p[3] # 0
        /\ \A i \in 1..p[1] : IsPrecore(s[i])
        /\ IsPostcore(SubSeq(s, p[1] + p[2] + 1, Len(s)))}

\* the parse the backtracking matcher finds first: the longest precore run,
\* then the first alternative, then the longest core
FirstParse(parses) ==
    CHOOSE p \in parses :
        \A o \in parses :
            \/ p[1] > o[1]
            \/ p[1] = o[1] /\ p[3] < o[3]
            \/ p[1] = o[1] /\ p[3] = o[3] /\ p[2] >= o[2]

\* the loop over re[1..7]: the xpicto sequence gives its first code point,
\* every other group its whole text
MatchedCore(s, p) ==
    IF p[3] = 5 THEN <<s[p[1] + 1]>> ELSE SubSeq(s, p[1] + 1, p[1] + p[2])

CoreOf(s, parses) ==
    IF Len(s) = 1 \/ parses = {} THEN s ELSE MatchedCore(s, FirstParse(parses))

extractCore(g) == CoreOf(NFD(g), CoreParses(NFD(g)))

\* map[k1] ?? map[k2] ?? map[g] ?? extractCore(g), ks being the three keys
FirstHit(ks, m, g) ==
    LET hits == {i \in 1..Len(ks) : ks[i] \in DOMAIN m}
    IN  IF hits = {} THEN extractCore(g)
        ELSE m[ks[CHOOSE i \in hits : \A j \in hits : i <= j]]

unifyGrapheme(g) ==
    FirstHit(<<NFKC(g)[1], NFC(g)[1], IF Len(g) = 1 THEN g[1] ELSE "">>, map, g)

\* the unified form of each cluster of segs
UnifyEach(segs) == [i \in 1..Len(segs) |-> unifyGrapheme(segs[i])]

unifyString(s) == Flatten(UnifyEach(Segment(s)))

(***************************************************************************)
(* lib/regex-transformer.js                                                *)
(***************************************************************************)
META_MAP == {".", "*", "[", "]", "^", "$", "{", "}", "(", ")", "?", "+", "|"}
FULLWIDTH_METACHAR_MAP == [c \in {"P", "B"} |-> IF c = "P" THEN "." ELSE "\\"]
FULLWIDTH_METACHAR_MAP_CLASS == [c \in {"M", "B"} |-> IF c = "M" THEN "-" ELSE "\\"]

\* the characters the regular expression class \s matches
IsSpace(c) == c \in {" ", "n"}
\* the characters . matches (flag u, no flag s)
IsDot(c) == c # "n"

\* getIteratePattern(), third alternative \[(?:\\.|[^\]])+\] tried at s[i] = "[":
\* i is the next position, cnt the number of items taken so far; the result
\* is the position of the closing bracket, 0 when the alternative fails.
\* The quantifier is greedy and each item tries \\. before [^\]].
RECURSIVE ClassEnd(_, _, _)
ClassEnd(s, i, cnt) ==
    LET asPair == IF i + 1 <= Len(s) /\ s[i] = "\\" /\ IsDot(s[i + 1])
                  THEN ClassEnd(s, i + 2, cnt + 1) ELSE 0
        asChar == IF i <= Len(s) /\ s[i] # "]"
                  THEN ClassEnd(s, i + 1, cnt + 1) ELSE 0
    IN  IF asPair # 0 THEN asPair
        ELSE IF asChar # 0 THEN asChar
        ELSE IF cnt >= 1 /\ i <= Len(s) /\ s[i] = "]" THEN i
        ELSE 0

\* fourth alternative [^\[\]{}().*+?^$|]+ : the end of the run starting at i
RECURSIVE RunEnd(_, _)
RunEnd(s, i) ==
    IF i + 1 <= Len(s) /\ s[i + 1] \notin META_MAP THEN RunEnd(s, i + 1) ELSE i

\* the successive matches of getIteratePattern() over s from position i;
\* a character no alternative matches at is skipped by the global search
RECURSIVE Tokens(_, _)
Tokens(s, i) ==
    IF i > Len(s) THEN <<>>
    ELSE IF s[i] = "\\" /\ i + 1 <= Len(s) /\ IsDot(s[i + 1])
         THEN <<SubSeq(s, i, i + 1)>> \o Tokens(s, i + 2)
    ELSE IF s[i] \in META_MAP \ {"[", "]"}
         THEN <<SubSeq(s, i, i)>> \o Tokens(s, i + 1)
    ELSE IF s[i] = "[" /\ ClassEnd(s, i + 1, 0) # 0
         THEN LET e == ClassEnd(s, i + 1, 0)
              IN  <<SubSeq(s, i, e)>> \o Tokens(s, e + 1)
    ELSE IF s[i] \notin META_MAP
         THEN LET e == RunEnd(s, i)
              IN  <<SubSeq(s, i, e)>> \o Tokens(s, e + 1)
    ELSE Tokens(s, i + 1)

\* a.replace(/[...]/g, $0 => `\\${table[$0]}`)
ReplaceFullwidth(a, table) ==
    Flatten([i \in 1..Len(a) |->
        IF a[i] \in DOMAIN table THEN <<"\\", table[a[i]]>> ELSE <<a[i]>>])

\* a.replace(/\s+/g, '\\s+')
RECURSIVE FoldSpaces(_)
FoldSpaces(a) ==
    IF a = <<>> THEN <<>>
    ELSE IF IsSpace(a[1])
         THEN IF Len(a) >= 2 /\ IsSpace(a[2]) THEN FoldSpaces(Tail(a))
              ELSE <<"\\", "s", "+">> \o FoldSpaces(Tail(a))
    ELSE <<a[1]>> \o FoldSpaces(Tail(a))

\* the members of us of one code point (single = TRUE) or of several
RECURSIVE BySize(_, _)
BySize(us, single) ==
    IF us = <<>> THEN <<>>
    ELSE IF (Len(us[1]) = 1) = single THEN <<us[1]>> \o BySize(Tail(us), single)
    ELSE BySize(Tail(us), single)

ClassSource(chars, graphemes) ==
    IF chars # <<>> /\ graphemes # <<>>
    THEN <<"(", "?", ":", "[">> \o chars \o <<"]", "|">>
         \o JoinWith(graphemes, <<"|">>) \o <<")">>
    ELSE IF chars # <<>> THEN <<"[">> \o chars \o <<"]">>
    ELSE IF graphemes # <<>> THEN <<"(", "?", ":">> \o JoinWith(graphemes, <<"|">>) \o <<")">>
    ELSE <<>>

ClassMembers(us) == ClassSource(Flatten(BySize(us, TRUE)), BySize(us, FALSE))

unifyInsideClass(a) ==
    ClassMembers(UnifyEach(Segment(ReplaceFullwidth(a, FULLWIDTH_METACHAR_MAP_CLASS))))

\* unifyOutsideClass without the whitespace folding
unifyOutsideClassNoFold(a) ==
    unifyString(ReplaceFullwidth(a, FULLWIDTH_METACHAR_MAP))

unifyOutsideClass(a) ==
    unifyString(FoldSpaces(ReplaceFullwidth(a, FULLWIDTH_METACHAR_MAP)))

\* the value that stands for a thrown SyntaxError
SyntaxError == <<"SyntaxError">>

\* fixup testing the first piece where the code tests the last
fixupFirst(result) ==
    IF Len(result) > 0 /\ result[1] # <<>> /\ Last(result[1]) = "\\"
    THEN SyntaxError
    ELSE Flatten(result)

fixup(result) ==
    IF Len(result) > 0 /\ Last(result) # <<>> /\ Last(Last(result)) = "\\"
    THEN SyntaxError
    ELSE Flatten(result)

\* graphemeRegex(target): the pattern source substituted for a bare dot
graphemeRegex == <<"(", "?", ":", "g", "c", ")">>

\* the body of transformRegex's loop for one match re of the iterate pattern
RegexPiece(re, detail) ==
    IF re[1] = "\\" THEN re
    ELSE IF re[1] = "["
         THEN IF detail.strict THEN <<"[">> \o SubSeq(re, 2, Len(re) - 1) \o <<"]">>
              ELSE unifyInsideClass(SubSeq(re, 2, Len(re) - 1))
    ELSE IF Len(re) = 1 /\ re[1] \in META_MAP
         THEN IF re[1] = "." /\ detail.extendDot THEN graphemeRegex ELSE re
    ELSE IF detail.strict THEN re ELSE unifyOutsideClass(re)

RegexPieces(toks, detail) == [i \in 1..Len(toks) |-> RegexPiece(toks[i], detail)]

transformRegex(source, detail) == fixup(RegexPieces(Tokens(source, 1), detail))

transformMigemo(source, detail) == transformRegex(source, detail)

\* a piece, or SyntaxError when the recursive call for a class threw
ClassPiece(inner) ==
    IF inner = SyntaxError THEN SyntaxError ELSE <<"\\", "[">> \o inner \o <<"\\", "]">>

LiteralResult(pieces) ==
    IF \E i \in 1..Len(pieces) : pieces[i] = SyntaxError THEN SyntaxError
    ELSE fixup(pieces)

\* unifyOutside is computed from detail.strict but not used: plain runs go
\* through unifyOutsideClass whatever the option; the recursive call passes
\* detail in the place of target, so the inner call runs with the default {}
RECURSIVE transformLiteral(_, _)
LiteralPiece(re, detail) ==
    IF re[1] = "\\" THEN re
    ELSE IF re[1] = "["
         THEN ClassPiece(transformLiteral(SubSeq(re, 2, Len(re) - 1),
                                          [detail EXCEPT !.strict = FALSE]))
    ELSE IF Len(re) = 1 /\ re[1] \in META_MAP THEN <<"\\">> \o re
    ELSE unifyOutsideClass(re)

LiteralPieces(toks, detail) == [i \in 1..Len(toks) |-> LiteralPiece(toks[i], detail)]

transformLiteral(source, detail) == LiteralResult(LiteralPieces(Tokens(source, 1), detail))

transform(source, detail) ==
    CASE detail.mode = "regex" -> transformRegex(source, detail)
      [] detail.mode = "migemo" -> transformMigemo(source, detail)
      [] detail.mode = "literal" -> transformLiteral(source, detail)

(***************************************************************************)
(* lib/jsmigemo.js: BitVector.  In the Migemo engine a string is the       *)
(* sequence of its UTF-16 code units.  The 32-bit words of a bit vector    *)
(* are given bit by bit: bit pos of the vector is words[pos + 1], and      *)
(* Len(words) is the number of bits the words hold.  A word read past the  *)
(* end of the array is undefined and counts as 0 in every operator below.  *)
(***************************************************************************)
\* what a function returns in this model when it throws a RangeError
RangeError == -1

\* the even number of words that holds bits: ((size + 63) >> 6) * 2
WordsOf(bits) == bits \o [i \in 1..((64 - (Len(bits) % 64)) % 64) |-> 0]

BitVector(words, sizeInBits) == [words |-> words, sizeInBits |-> sizeInBits]

get(bv, pos) == pos < Len(bv.words) /\ bv.words[pos + 1] = 1

\* sb and lb cover sb.length * 64 bits; sb[pos >>> 6] past the end of sb
\* is undefined, and the sum is then NaN
PastSb(bv, pos) == pos \div 64 >= 8 * ((bv.sizeInBits + 511) \div 512)

rank(bv, pos, b) ==
    IF PastSb(bv, pos) THEN "NaN"
    ELSE LET count1 == Cardinality({p \in 0..(pos - 1) : get(bv, p)})
         IN  IF b THEN count1 ELSE pos - count1

\* the searches over lb and sb and the loop over the double word, which
\* does not end when fewer than count bits equal to b are covered by sb
RECURSIVE SelectFrom(_, _, _, _)
SelectFrom(bv, pos, count, b) ==
    IF pos >= 512 * ((bv.sizeInBits + 511) \div 512) THEN "never returns"
    ELSE IF get(bv, pos) # b THEN SelectFrom(bv, pos + 1, count, b)
    ELSE IF count = 1 THEN pos
    ELSE SelectFrom(bv, pos + 1, count - 1, b)

select(bv, count, b) ==
    IF count <= 0 \/ bv.sizeInBits = 0 THEN 0 ELSE SelectFrom(bv, 0, count, b)

nextClearBit(bv, fromIndex) ==
    LET clear == {p \in fromIndex..(Len(bv.words) - 1) : ~get(bv, p)}
    IN  IF fromIndex >= Len(bv.words) THEN fromIndex
        ELSE IF clear = {} THEN -1
        ELSE CHOOSE p \in clear : \A q \in clear : p <= q

\* binarySearchUint16 with high = toIndex - 1; a[mid] is a[mid + 1] here
RECURSIVE binarySearchUint16(_, _, _, _)
binarySearchUint16(a, low, high, k) ==
    IF low > high THEN -(low + 1)
    ELSE IF a[(low + high) \div 2 + 1] < k
         THEN binarySearchUint16(a, (low + high) \div 2 + 1, high, k)
    ELSE IF a[(low + high) \div 2 + 1] > k
         THEN binarySearchUint16(a, low, (low + high) \div 2 - 1, k)
    ELSE (low + high) \div 2

(***************************************************************************)
(* LOUDSTrie: [bitVector, edges], edges[index + 1] the label of node index *)
(***************************************************************************)
parent(trie, x) == rank(trie.bitVector, select(trie.bitVector, x, TRUE), FALSE)

RECURSIVE ReverseFrom(_, _)
ReverseFrom(trie, index) ==
    IF index > 1
    THEN Append(ReverseFrom(trie, parent(trie, index)), trie.edges[index + 1])
    ELSE <<>>

reverseLookup(trie, index) ==
    IF index <= 0 \/ Len(trie.edges) <= index THEN <<RangeError>>
    ELSE ReverseFrom(trie, index)

\* the first child of x, or the node that follows the children of x - 1
\* when x has none: rank(select(x, false) + 1, true) + 1
ChildRank(bv, x) == rank(bv, select(bv, x, FALSE) + 1, TRUE) + 1

firstChild(trie, x) ==
    IF get(trie.bitVector, select(trie.bitVector, x, FALSE) + 1)
    THEN ChildRank(trie.bitVector, x) ELSE -1

traverse(trie, index, c) ==
    LET fc == firstChild(trie, index)
        childStartBit == select(trie.bitVector, fc, TRUE)
        childEndBit == nextClearBit(trie.bitVector, childStartBit)
        r == binarySearchUint16(trie.edges, fc, fc + (childEndBit - childStartBit) - 1, c)
    IN  IF fc = -1 THEN -1
        ELSE IF r >= 0 THEN r ELSE -1

RECURSIVE LookupFrom(_, _, _, _)
LookupFrom(trie, k, i, nodeIndex) ==
    IF i > Len(k) \/ nodeIndex = -1 THEN nodeIndex
    ELSE LookupFrom(trie, k, i + 1, traverse(trie, nodeIndex, k[i]))

lookup(trie, k) == LookupFrom(trie, k, 1, 1)

\* LOUDSTrie.predictiveSearch: the nodes yielded, level by level
RECURSIVE SearchLevels(_, _, _)
SearchLevels(bv, lower, upper) ==
    IF upper - lower > 0
    THEN [i \in 1..(upper - lower) |-> lower + i - 1]
         \o SearchLevels(bv, ChildRank(bv, lower), ChildRank(bv, upper))
    ELSE <<>>

(***************************************************************************)
(* LOUDSTrieBuilder.build: st is the state of the loops, [nodes,           *)
(* currentNode, edges, louds, lastChar, lastParent, restKeys]              *)
(***************************************************************************)
\* the body of the loop over keys, for keys[i] at this cursor
KeyStep(st, k, i, cursor) ==
    LET currentChar == k[cursor + 1]
        currentParent == st.nodes[i]
        grown == IF st.lastParent # currentParent
                 THEN [st EXCEPT !.louds = @ \o <<0, 1>>,
                                 !.edges = Append(@, currentChar),
                                 !.currentNode = @ + 1]
                 ELSE IF st.lastChar # currentChar
                 THEN [st EXCEPT !.louds = Append(@, 1),
                                 !.edges = Append(@, currentChar),
                                 !.currentNode = @ + 1]
                 ELSE st
    IN  IF Len(k) < cursor THEN st
        ELSE IF Len(k) = cursor
        THEN [st EXCEPT !.louds = Append(@, 0), !.lastParent = st.nodes[i], !.lastChar = 0]
        ELSE [grown EXCEPT !.nodes[i] = grown.currentNode,
                           !.lastChar = currentChar,
                           !.lastParent = currentParent,
                           !.restKeys = @ + 1]

RECURSIVE KeyLoop(_, _, _, _)
KeyLoop(st, keys, i, cursor) ==
    IF i > Len(keys) THEN st
    ELSE KeyLoop(KeyStep(st, keys[i], i, cursor), keys, i + 1, cursor)

\* the while (true) loop, st being the state after the loop over keys
RECURSIVE CursorLoop(_, _, _)
CursorLoop(st, keys, cursor) ==
    IF st.restKeys = 0 THEN st
    ELSE CursorLoop(KeyLoop([st EXCEPT !.lastChar = 0, !.lastParent = 0, !.restKeys = 0],
                            keys, 1, cursor + 1),
                    keys, cursor + 1)

\* build(keys)[0]: new LOUDSTrie(new BitVector(louds words, louds.size), edges)
LOUDSTrieBuilder(keys) ==
    LET st == CursorLoop(KeyLoop([nodes |-> [i \in 1..Len(keys) |-> 1], currentNode |-> 1,
                                  edges |-> <<32, 32>>, louds |-> <<1>>,
                                  lastChar |-> 0, lastParent |-> 0, restKeys |-> 0],
                                 keys, 1, 0),
                         keys, 0)
    IN  [bitVector |-> BitVector(WordsOf(st.louds), Len(st.louds)), edges |-> st.edges]

(***************************************************************************)
(* CompactHiraganaString, CompactDictionaryBuilder and CompactDictionary   *)
(***************************************************************************)
encodeChar(b) ==
    IF b = 0 THEN 0
    ELSE IF 32 <= b /\ b <= 126 THEN b
    ELSE IF 12353 <= b /\ b <= 12438 THEN b - 12352 + 160
    ELSE IF b = 12540 THEN 247
    ELSE RangeError

decode(c) ==
    IF 32 <= c /\ c <= 126 THEN c
    ELSE IF 161 <= c /\ c <= 246 THEN c + 12352 - 160
    ELSE IF c = 247 THEN 12540
    ELSE RangeError

\* a < b for strings, by UTF-16 code units
RECURSIVE StrLess(_, _)
StrLess(a, b) ==
    IF b = <<>> THEN FALSE
    ELSE IF a = <<>> THEN TRUE
    ELSE IF a[1] # b[1] THEN a[1] < b[1]
    ELSE StrLess(Tail(a), Tail(b))

\* Array.from(S).sort()
RECURSIVE Sorted(_)
Sorted(S) ==
    IF S = {} THEN <<>>
    ELSE LET least == CHOOSE a \in S : \A b \in S : a = b \/ StrLess(a, b)
         IN  <<least>> \o Sorted(S \ {least})

\* the keys left in dict after the keys encodeString throws on are deleted
Encodable(dict) ==
    {k \in DOMAIN dict : \A i \in 1..Len(k) : encodeChar(k[i]) # RangeError}

\* the loop "build trie mapping" and the output: the buffer is given by its
\* fields, each bit vector as its bit count and its words
Output(dict, kept, keyTrie, valueTrie) ==
    LET values(i) == IF reverseLookup(keyTrie, i) \in kept
                     THEN dict[reverseLookup(keyTrie, i)] ELSE <<>>
        nodes == Len(keyTrie.edges) - 1
        mappingBitList == Flatten([i \in 1..nodes |-> <<0>> \o [j \in 1..Len(values(i)) |-> 1]])
    IN  [keyTrieEdges |-> [i \in 1..Len(keyTrie.edges) |-> encodeChar(keyTrie.edges[i])],
         keyTrieBits |-> keyTrie.bitVector,
         valueTrieEdges |-> valueTrie.edges,
         valueTrieBits |-> valueTrie.bitVector,
         mappingBits |-> BitVector(WordsOf(mappingBitList), Len(mappingBitList)),
         mapping |-> Flatten([i \in 1..nodes |->
                        [j \in 1..Len(values(i)) |-> lookup(valueTrie, values(i)[j])]])]

CompactDictionaryBuilder(dict) ==
    Output(dict, Encodable(dict), LOUDSTrieBuilder(Sorted(Encodable(dict))),
           LOUDSTrieBuilder(Sorted(UNION {{dict[k][j] : j \in 1..Len(dict[k])} :
                                          k \in Encodable(dict)})))

RECURSIVE HasMappingFrom(_, _, _, _)
HasMappingFrom(bv, node, numOfNodes, bitPosition) ==
    IF node < numOfNodes
    THEN <<get(bv, bitPosition + 1)>>
         \o HasMappingFrom(bv, node + 1, numOfNodes, nextClearBit(bv, bitPosition + 1))
    ELSE <<>>

\* the bit list, as the sequence of its bits 1 .. numOfNodes - 1; no node
\* is below a numOfNodes of NaN
createHasMappingBitList(bv) ==
    IF PastSb(bv, bv.sizeInBits + 1) THEN <<>>
    ELSE HasMappingFrom(bv, 1, rank(bv, bv.sizeInBits + 1, FALSE), 0)

\* new CompactDictionary(buffer)
CompactDictionary(buffer) ==
    [keyTrie |-> [bitVector |-> BitVector(buffer.keyTrieBits.words, buffer.keyTrieBits.sizeInBits),
                  edges |-> [i \in 1..Len(buffer.keyTrieEdges) |-> decode(buffer.keyTrieEdges[i])]],
     valueTrie |-> [bitVector |-> BitVector(buffer.valueTrieBits.words, buffer.valueTrieBits.sizeInBits),
                    edges |-> buffer.valueTrieEdges],
     mappingBitVector |-> buffer.mappingBits,
     mapping |-> buffer.mapping,
     hasMappingBitList |-> createHasMappingBitList(buffer.mappingBits)]

\* the values of key trie node i, as both searches read them from the
\* mapping when hasMappingBitList.get(i): size may be negative, and then
\* nothing is yielded
ValuesOf(d, i) ==
    LET valueStartPos == select(d.mappingBitVector, i, FALSE)
        valueEndPos == nextClearBit(d.mappingBitVector, valueStartPos + 1)
        size == valueEndPos - valueStartPos - 1
        offset == rank(d.mappingBitVector, valueStartPos, FALSE)
    IN  IF i <= Len(d.hasMappingBitList) /\ d.hasMappingBitList[i]
        THEN [j \in 1..size |->
                reverseLookup(d.valueTrie, d.mapping[valueStartPos - offset + j])]
        ELSE <<>>

\* the values search(key) yields, in order
search(d, k) ==
    LET keyIndex == lookup(d.keyTrie, k)
    IN  IF keyIndex # -1 THEN ValuesOf(d, keyIndex) ELSE <<>>

\* the values predictiveSearch(key) yields, in order
predictiveSearch(d, k) ==
    LET keyIndex == lookup(d.keyTrie, k)
        indices == SearchLevels(d.keyTrie.bitVector, keyIndex, keyIndex + 1)
    IN  IF keyIndex > 1
        THEN Flatten([n \in 1..Len(indices) |-> ValuesOf(d, indices[n])])
        ELSE <<>>

(***************************************************************************)
(* lib/jsmigemo.js: the romaji table of RomajiProcessor1, in the order of  *)
(* the source, each entry as <<roman, hiragana, remain>>                   *)
(***************************************************************************)
ROMAN_ENTRIES == <<
    <<<<45>>, <<12540>>, 0>>, <<<<126>>, <<12316>>, 0>>, <<<<46>>, <<12290>>, 0>>,
    <<<<44>>, <<12289>>, 0>>, <<<<122, 47>>, <<12539>>, 0>>, <<<<122, 46>>, <<8230>>, 0>>,
    <<<<122, 44>>, <<8229>>, 0>>, <<<<122, 104>>, <<8592>>, 0>>, <<<<122, 106>>, <<8595>>, 0>>,
    <<<<122, 107>>, <<8593>>, 0>>, <<<<122, 108>>, <<8594>>, 0>>,
    <<<<122, 45>>, <<12316>>, 0>>, <<<<122, 91>>, <<12302>>, 0>>,
    <<<<122, 93>>, <<12303>>, 0>>, <<<<91>>, <<12300>>, 0>>, <<<<93>>, <<12301>>, 0>>,
    <<<<118, 97>>, <<12436, 12353>>, 0>>, <<<<118, 105>>, <<12436, 12355>>, 0>>,
    <<<<118, 117>>, <<12436>>, 0>>, <<<<118, 101>>, <<12436, 12359>>, 0>>,
    <<<<118, 111>>, <<12436, 12361>>, 0>>, <<<<118, 121, 97>>, <<12436, 12419>>, 0>>,
    <<<<118, 121, 105>>, <<12436, 12355>>, 0>>, <<<<118, 121, 117>>, <<12436, 12421>>, 0>>,
    <<<<118, 121, 101>>, <<12436, 12359>>, 0>>, <<<<118, 121, 111>>, <<12436, 12423>>, 0>>,
    <<<<113, 113>>, <<12387>>, 1>>, <<<<118, 118>>, <<12387>>, 1>>,
    <<<<108, 108>>, <<12387>>, 1>>, <<<<120, 120>>, <<12387>>, 1>>,
    <<<<107, 107>>, <<12387>>, 1>>, <<<<103, 103>>, <<12387>>, 1>>,
    <<<<115, 115>>, <<12387>>, 1>>, <<<<122, 122>>, <<12387>>, 1>>,
    <<<<106, 106>>, <<12387>>, 1>>, <<<<116, 116>>, <<12387>>, 1>>,
    <<<<100, 100>>, <<12387>>, 1>>, <<<<104, 104>>, <<12387>>, 1>>,
    <<<<102, 102>>, <<12387>>, 1>>, <<<<98, 98>>, <<12387>>, 1>>,
    <<<<112, 112>>, <<12387>>, 1>>, <<<<109, 109>>, <<12387>>, 1>>,
    <<<<121, 121>>, <<12387>>, 1>>, <<<<114, 114>>, <<12387>>, 1>>,
    <<<<119, 119>>, <<12387>>, 1>>, <<<<119, 119, 119>>, <<119>>, 2>>,
    <<<<99, 99>>, <<12387>>, 1>>, <<<<107, 121, 97>>, <<12365, 12419>>, 0>>,
    <<<<107, 121, 105>>, <<12365, 12355>>, 0>>, <<<<107, 121, 117>>, <<12365, 12421>>, 0>>,
    <<<<107, 121, 101>>, <<12365, 12359>>, 0>>, <<<<107, 121, 111>>, <<12365, 12423>>, 0>>,
    <<<<103, 121, 97>>, <<12366, 12419>>, 0>>, <<<<103, 121, 105>>, <<12366, 12355>>, 0>>,
    <<<<103, 121, 117>>, <<12366, 12421>>, 0>>, <<<<103, 121, 101>>, <<12366, 12359>>, 0>>,
    <<<<103, 121, 111>>, <<12366, 12423>>, 0>>, <<<<115, 121, 97>>, <<12375, 12419>>, 0>>,
    <<<<115, 121, 105>>, <<12375, 12355>>, 0>>, <<<<115, 121, 117>>, <<12375, 12421>>, 0>>,
    <<<<115, 121, 101>>, <<12375, 12359>>, 0>>, <<<<115, 121, 111>>, <<12375, 12423>>, 0>>,
    <<<<115, 104, 97>>, <<12375, 12419>>, 0>>, <<<<115, 104, 105>>, <<12375>>, 0>>,
    <<<<115, 104, 117>>, <<12375, 12421>>, 0>>, <<<<115, 104, 101>>, <<12375, 12359>>, 0>>,
    <<<<115, 104, 111>>, <<12375, 12423>>, 0>>, <<<<122, 121, 97>>, <<12376, 12419>>, 0>>,
    <<<<122, 121, 105>>, <<12376, 12355>>, 0>>, <<<<122, 121, 117>>, <<12376, 12421>>, 0>>,
    <<<<122, 121, 101>>, <<12376, 12359>>, 0>>, <<<<122, 121, 111>>, <<12376, 12423>>, 0>>,
    <<<<116, 121, 97>>, <<12385, 12419>>, 0>>, <<<<116, 121, 105>>, <<12385, 12355>>, 0>>,
    <<<<116, 121, 117>>, <<12385, 12421>>, 0>>, <<<<116, 121, 101>>, <<12385, 12359>>, 0>>,
    <<<<116, 121, 111>>, <<12385, 12423>>, 0>>, <<<<99, 104, 97>>, <<12385, 12419>>, 0>>,
    <<<<99, 104, 105>>, <<12385>>, 0>>, <<<<99, 104, 117>>, <<12385, 12421>>, 0>>,
    <<<<99, 104, 101>>, <<12385, 12359>>, 0>>, <<<<99, 104, 111>>, <<12385, 12423>>, 0>>,
    <<<<99, 121, 97>>, <<12385, 12419>>, 0>>, <<<<99, 121, 105>>, <<12385, 12355>>, 0>>,
    <<<<99, 121, 117>>, <<12385, 12421>>, 0>>, <<<<99, 121, 101>>, <<12385, 12359>>, 0>>,
    <<<<99, 121, 111>>, <<12385, 12423>>, 0>>, <<<<100, 121, 97>>, <<12386, 12419>>, 0>>,
    <<<<100, 121, 105>>, <<12386, 12355>>, 0>>, <<<<100, 121, 117>>, <<12386, 12421>>, 0>>,
    <<<<100, 121, 101>>, <<12386, 12359>>, 0>>, <<<<100, 121, 111>>, <<12386, 12423>>, 0>>,
    <<<<116, 115, 97>>, <<12388, 12353>>, 0>>, <<<<116, 115, 105>>, <<12388, 12355>>, 0>>,
    <<<<116, 115, 101>>, <<12388, 12359>>, 0>>, <<<<116, 115, 111>>, <<12388, 12361>>, 0>>,
    <<<<116, 104, 97>>, <<12390, 12419>>, 0>>, <<<<116, 104, 105>>, <<12390, 12355>>, 0>>,
    <<<<116, 39, 105>>, <<12390, 12355>>, 0>>, <<<<116, 104, 117>>, <<12390, 12421>>, 0>>,
    <<<<116, 104, 101>>, <<12390, 12359>>, 0>>, <<<<116, 104, 111>>, <<12390, 12423>>, 0>>,
    <<<<116, 39, 121, 117>>, <<12390, 12421>>, 0>>, <<<<100, 104, 97>>, <<12391, 12419>>, 0>>,
    <<<<100, 104, 105>>, <<12391, 12355>>, 0>>, <<<<100, 39, 105>>, <<12391, 12355>>, 0>>,
    <<<<100, 104, 117>>, <<12391, 12421>>, 0>>, <<<<100, 104, 101>>, <<12391, 12359>>, 0>>,
    <<<<100, 104, 111>>, <<12391, 12423>>, 0>>, <<<<100, 39, 121, 117>>, <<12391, 12421>>, 0>>,
    <<<<116, 119, 97>>, <<12392, 12353>>, 0>>, <<<<116, 119, 105>>, <<12392, 12355>>, 0>>,
    <<<<116, 119, 117>>, <<12392, 12357>>, 0>>, <<<<116, 119, 101>>, <<12392, 12359>>, 0>>,
    <<<<116, 119, 111>>, <<12392, 12361>>, 0>>, <<<<116, 39, 117>>, <<12392, 12357>>, 0>>,
    <<<<100, 119, 97>>, <<12393, 12353>>, 0>>, <<<<100, 119, 105>>, <<12393, 12355>>, 0>>,
    <<<<100, 119, 117>>, <<12393, 12357>>, 0>>, <<<<100, 119, 101>>, <<12393, 12359>>, 0>>,
    <<<<100, 119, 111>>, <<12393, 12361>>, 0>>, <<<<100, 39, 117>>, <<12393, 12357>>, 0>>,
    <<<<110, 121, 97>>, <<12395, 12419>>, 0>>, <<<<110, 121, 105>>, <<12395, 12355>>, 0>>,
    <<<<110, 121, 117>>, <<12395, 12421>>, 0>>, <<<<110, 121, 101>>, <<12395, 12359>>, 0>>,
    <<<<110, 121, 111>>, <<12395, 12423>>, 0>>, <<<<104, 121, 97>>, <<12402, 12419>>, 0>>,
    <<<<104, 121, 105>>, <<12402, 12355>>, 0>>, <<<<104, 121, 117>>, <<12402, 12421>>, 0>>,
    <<<<104, 121, 101>>, <<12402, 12359>>, 0>>, <<<<104, 121, 111>>, <<12402, 12423>>, 0>>,
    <<<<98, 121, 97>>, <<12403, 12419>>, 0>>, <<<<98, 121, 105>>, <<12403, 12355>>, 0>>,
    <<<<98, 121, 117>>, <<12403, 12421>>, 0>>, <<<<98, 121, 101>>, <<12403, 12359>>, 0>>,
    <<<<98, 121, 111>>, <<12403, 12423>>, 0>>, <<<<112, 121, 97>>, <<12404, 12419>>, 0>>,
    <<<<112, 121, 105>>, <<12404, 12355>>, 0>>, <<<<112, 121, 117>>, <<12404, 12421>>, 0>>,
    <<<<112, 121, 101>>, <<12404, 12359>>, 0>>, <<<<112, 121, 111>>, <<12404, 12423>>, 0>>,
    <<<<102, 97>>, <<12405, 12353>>, 0>>, <<<<102, 105>>, <<12405, 12355>>, 0>>,
    <<<<102, 117>>, <<12405>>, 0>>, <<<<102, 101>>, <<12405, 12359>>, 0>>,
    <<<<102, 111>>, <<12405, 12361>>, 0>>, <<<<102, 121, 97>>, <<12405, 12419>>, 0>>,
    <<<<102, 121, 117>>, <<12405, 12421>>, 0>>, <<<<102, 121, 111>>, <<12405, 12423>>, 0>>,
    <<<<104, 119, 97>>, <<12405, 12353>>, 0>>, <<<<104, 119, 105>>, <<12405, 12355>>, 0>>,
    <<<<104, 119, 101>>, <<12405, 12359>>, 0>>, <<<<104, 119, 111>>, <<12405, 12361>>, 0>>,
    <<<<104, 119, 121, 117>>, <<12405, 12421>>, 0>>, <<<<109, 121, 97>>, <<12415, 12419>>, 0>>,
    <<<<109, 121, 105>>, <<12415, 12355>>, 0>>, <<<<109, 121, 117>>, <<12415, 12421>>, 0>>,
    <<<<109, 121, 101>>, <<12415, 12359>>, 0>>, <<<<109, 121, 111>>, <<12415, 12423>>, 0>>,
    <<<<114, 121, 97>>, <<12426, 12419>>, 0>>, <<<<114, 121, 105>>, <<12426, 12355>>, 0>>,
    <<<<114, 121, 117>>, <<12426, 12421>>, 0>>, <<<<114, 121, 101>>, <<12426, 12359>>, 0>>,
    <<<<114, 121, 111>>, <<12426, 12423>>, 0>>, <<<<110, 39>>, <<12435>>, 0>>,
    <<<<110, 110>>, <<12435>>, 0>>, <<<<110>>, <<12435>>, 0>>, <<<<120, 110>>, <<12435>>, 0>>,
    <<<<97>>, <<12354>>, 0>>, <<<<105>>, <<12356>>, 0>>, <<<<117>>, <<12358>>, 0>>,
    <<<<119, 117>>, <<12358>>, 0>>, <<<<101>>, <<12360>>, 0>>, <<<<111>>, <<12362>>, 0>>,
    <<<<120, 97>>, <<12353>>, 0>>, <<<<120, 105>>, <<12355>>, 0>>,
    <<<<120, 117>>, <<12357>>, 0>>, <<<<120, 101>>, <<12359>>, 0>>,
    <<<<120, 111>>, <<12361>>, 0>>, <<<<108, 97>>, <<12353>>, 0>>,
    <<<<108, 105>>, <<12355>>, 0>>, <<<<108, 117>>, <<12357>>, 0>>,
    <<<<108, 101>>, <<12359>>, 0>>, <<<<108, 111>>, <<12361>>, 0>>,
    <<<<108, 121, 105>>, <<12355>>, 0>>, <<<<120, 121, 105>>, <<12355>>, 0>>,
    <<<<108, 121, 101>>, <<12359>>, 0>>, <<<<120, 121, 101>>, <<12359>>, 0>>,
    <<<<121, 101>>, <<12356, 12359>>, 0>>, <<<<107, 97>>, <<12363>>, 0>>,
    <<<<107, 105>>, <<12365>>, 0>>, <<<<107, 117>>, <<12367>>, 0>>,
    <<<<107, 101>>, <<12369>>, 0>>, <<<<107, 111>>, <<12371>>, 0>>,
    <<<<120, 107, 97>>, <<12533>>, 0>>, <<<<120, 107, 101>>, <<12534>>, 0>>,
    <<<<108, 107, 97>>, <<12533>>, 0>>, <<<<108, 107, 101>>, <<12534>>, 0>>,
    <<<<103, 97>>, <<12364>>, 0>>, <<<<103, 105>>, <<12366>>, 0>>,
    <<<<103, 117>>, <<12368>>, 0>>, <<<<103, 101>>, <<12370>>, 0>>,
    <<<<103, 111>>, <<12372>>, 0>>, <<<<115, 97>>, <<12373>>, 0>>,
    <<<<115, 105>>, <<12375>>, 0>>, <<<<115, 117>>, <<12377>>, 0>>,
    <<<<115, 101>>, <<12379>>, 0>>, <<<<115, 111>>, <<12381>>, 0>>,
    <<<<99, 97>>, <<12363>>, 0>>, <<<<99, 105>>, <<12375>>, 0>>, <<<<99, 117>>, <<12367>>, 0>>,
    <<<<99, 101>>, <<12379>>, 0>>, <<<<99, 111>>, <<12371>>, 0>>,
    <<<<113, 97>>, <<12367, 12353>>, 0>>, <<<<113, 105>>, <<12367, 12355>>, 0>>,
    <<<<113, 117>>, <<12367>>, 0>>, <<<<113, 101>>, <<12367, 12359>>, 0>>,
    <<<<113, 111>>, <<12367, 12361>>, 0>>, <<<<107, 119, 97>>, <<12367, 12353>>, 0>>,
    <<<<107, 119, 105>>, <<12367, 12355>>, 0>>, <<<<107, 119, 117>>, <<12367, 12357>>, 0>>,
    <<<<107, 119, 101>>, <<12367, 12359>>, 0>>, <<<<107, 119, 111>>, <<12367, 12361>>, 0>>,
    <<<<103, 119, 97>>, <<12368, 12353>>, 0>>, <<<<103, 119, 105>>, <<12368, 12355>>, 0>>,
    <<<<103, 119, 117>>, <<12368, 12357>>, 0>>, <<<<103, 119, 101>>, <<12368, 12359>>, 0>>,
    <<<<103, 119, 111>>, <<12368, 12361>>, 0>>, <<<<122, 97>>, <<12374>>, 0>>,
    <<<<122, 105>>, <<12376>>, 0>>, <<<<122, 117>>, <<12378>>, 0>>,
    <<<<122, 101>>, <<12380>>, 0>>, <<<<122, 111>>, <<12382>>, 0>>,
    <<<<106, 97>>, <<12376, 12419>>, 0>>, <<<<106, 105>>, <<12376>>, 0>>,
    <<<<106, 117>>, <<12376, 12421>>, 0>>, <<<<106, 101>>, <<12376, 12359>>, 0>>,
    <<<<106, 111>>, <<12376, 12423>>, 0>>, <<<<106, 121, 97>>, <<12376, 12419>>, 0>>,
    <<<<106, 121, 105>>, <<12376, 12355>>, 0>>, <<<<106, 121, 117>>, <<12376, 12421>>, 0>>,
    <<<<106, 121, 101>>, <<12376, 12359>>, 0>>, <<<<106, 121, 111>>, <<12376, 12423>>, 0>>,
    <<<<116, 97>>, <<12383>>, 0>>, <<<<116, 105>>, <<12385>>, 0>>,
    <<<<116, 117>>, <<12388>>, 0>>, <<<<116, 115, 117>>, <<12388>>, 0>>,
    <<<<116, 101>>, <<12390>>, 0>>, <<<<116, 111>>, <<12392>>, 0>>,
    <<<<100, 97>>, <<12384>>, 0>>, <<<<100, 105>>, <<12386>>, 0>>,
    <<<<100, 117>>, <<12389>>, 0>>, <<<<100, 101>>, <<12391>>, 0>>,
    <<<<100, 111>>, <<12393>>, 0>>, <<<<120, 116, 117>>, <<12387>>, 0>>,
    <<<<120, 116, 115, 117>>, <<12387>>, 0>>, <<<<108, 116, 117>>, <<12387>>, 0>>,
    <<<<108, 116, 115, 117>>, <<12387>>, 0>>, <<<<110, 97>>, <<12394>>, 0>>,
    <<<<110, 105>>, <<12395>>, 0>>, <<<<110, 117>>, <<12396>>, 0>>,
    <<<<110, 101>>, <<12397>>, 0>>, <<<<110, 111>>, <<12398>>, 0>>,
    <<<<104, 97>>, <<12399>>, 0>>, <<<<104, 105>>, <<12402>>, 0>>,
    <<<<104, 117>>, <<12405>>, 0>>, <<<<102, 117>>, <<12405>>, 0>>,
    <<<<104, 101>>, <<12408>>, 0>>, <<<<104, 111>>, <<12411>>, 0>>,
    <<<<98, 97>>, <<12400>>, 0>>, <<<<98, 105>>, <<12403>>, 0>>, <<<<98, 117>>, <<12406>>, 0>>,
    <<<<98, 101>>, <<12409>>, 0>>, <<<<98, 111>>, <<12412>>, 0>>,
    <<<<112, 97>>, <<12401>>, 0>>, <<<<112, 105>>, <<12404>>, 0>>,
    <<<<112, 117>>, <<12407>>, 0>>, <<<<112, 101>>, <<12410>>, 0>>,
    <<<<112, 111>>, <<12413>>, 0>>, <<<<109, 97>>, <<12414>>, 0>>,
    <<<<109, 105>>, <<12415>>, 0>>, <<<<109, 117>>, <<12416>>, 0>>,
    <<<<109, 101>>, <<12417>>, 0>>, <<<<109, 111>>, <<12418>>, 0>>,
    <<<<120, 121, 97>>, <<12419>>, 0>>, <<<<108, 121, 97>>, <<12419>>, 0>>,
    <<<<121, 97>>, <<12420>>, 0>>, <<<<119, 121, 105>>, <<12432>>, 0>>,
    <<<<120, 121, 117>>, <<12421>>, 0>>, <<<<108, 121, 117>>, <<12421>>, 0>>,
    <<<<121, 117>>, <<12422>>, 0>>, <<<<119, 121, 101>>, <<12433>>, 0>>,
    <<<<120, 121, 111>>, <<12423>>, 0>>, <<<<108, 121, 111>>, <<12423>>, 0>>,
    <<<<121, 111>>, <<12424>>, 0>>, <<<<114, 97>>, <<12425>>, 0>>,
    <<<<114, 105>>, <<12426>>, 0>>, <<<<114, 117>>, <<12427>>, 0>>,
    <<<<114, 101>>, <<12428>>, 0>>, <<<<114, 111>>, <<12429>>, 0>>,
    <<<<120, 119, 97>>, <<12430>>, 0>>, <<<<108, 119, 97>>, <<12430>>, 0>>,
    <<<<119, 97>>, <<12431>>, 0>>, <<<<119, 105>>, <<12358, 12355>>, 0>>,
    <<<<119, 101>>, <<12358, 12359>>, 0>>, <<<<119, 111>>, <<12434>>, 0>>,
    <<<<119, 104, 97>>, <<12358, 12353>>, 0>>, <<<<119, 104, 105>>, <<12358, 12355>>, 0>>,
    <<<<119, 104, 117>>, <<12358>>, 0>>, <<<<119, 104, 101>>, <<12358, 12359>>, 0>>,
    <<<<119, 104, 111>>, <<12358, 12361>>, 0>>>>

(***************************************************************************)
(* The double array of RomajiProcessor2.build(): element n of each array   *)
(* of the source is element n + 1 here                                     *)
(***************************************************************************)
base == <<
    0, -1, -1, -1, -1, -1, -1, -1, -1, -1, -1, -1, -1, -1, -1, -1, -1, -1, -1, -1, -1, -1, -1,
    -1, -1, -1, -1, -1, -1, -1, -1, -1, -1, -1, -1, -1, -1, -1, -1, -1, -1, -1, -1, -1, -1, -1,
    -1, -1, -1, -1, -1, -1, -1, -1, -1, -1, -1, -1, -1, -1, -1, -1, -1, -1, -1, -1, -1, -1, -1,
    -1, -1, -1, -1, -1, -1, -1, -1, -1, -1, -1, -1, -1, -1, -1, -1, -1, -1, -1, -1, -1, -1, -1,
    -1, -1, -1, -1, -1, -1, 26, 31, 95, -1, 100, 121, 147, -1, 175, 182, 203, 229, 251, -1,
    266, 284, 291, 302, 334, -1, 379, 401, 420, 432, 464, -1, -1, -1, -1, -1, -1, -1, -1, -1,
    -1, -1, 50, 49, -1, -1, -1, -1, -1, -1, -1, -1, -1, -1, -1, 28, -1, -1, -1, -1, 52, -1, -1,
    -1, -1, -1, -1, 24, -1, -1, -1, -1, -1, -1, -1, -1, -1, -1, -1, 21, -1, -1, -1, -1, -1, -1,
    -1, -1, -1, -1, -1, 57, -1, -1, -1, -1, -1, -1, -1, -1, -1, -1, -1, -1, -1, -1, -1, 67, -1,
    -1, -1, -1, -1, -1, -1, 34, -1, -1, -1, -1, -1, -1, 76, -1, 93, -1, -1, -1, -1, 59, -1, -1,
    -1, -1, -1, -1, -1, -1, -1, -1, -1, -1, -1, -1, -1, -1, -1, -1, 118, -1, 136, -1, -1, -1,
    -1, -1, -1, -1, -1, -1, -1, -1, -1, -1, -1, -1, -1, -1, -1, -1, -1, -1, -1, -1, 149, -1,
    158, -1, 23, -1, -1, -1, -1, -1, -1, -1, -1, -1, -1, -1, -1, -1, -1, -1, -1, -1, -1, -1,
    -1, -1, -1, -1, -1, -1, 160, -1, -1, -1, -1, 177, -1, 201, -1, -1, -1, -1, -1, -1, 61, -1,
    -1, -1, -1, -1, -1, -1, -1, 44, -1, -1, 47, -1, 212, -1, -1, -1, -1, -1, -1, -1, -1, -1,
    -1, -1, -1, -1, -1, -1, -1, -1, -1, -1, -1, -1, -1, -1, -1, -1, 230, -1, -1, -1, -1, -1,
    -1, -1, -1, -1, -1, -1, -1, -1, -1, -1, -1, -1, -1, -1, -1, -1, 248, 86, -1, -1, -1, -1,
    -1, -1, -1, -1, -1, -1, -1, -1, -1, 269, -1, -1, -1, -1, -1, -1, -1, -1, -1, -1, -1, -1,
    -1, -1, -1, -1, -1, -1, 317, -1, -1, -1, -1, -1, 293, -1, -1, -1, -1, -1, -1, -1, -1, -1,
    -1, 319, -1, -1, -1, -1, -1, -1, -1, -1, -1, -1, -1, -1, -1, -1, 343, -1, -1, -1, -1, -1,
    -1, -1, -1, -1, -1, 360, -1, -1, -1, 361, -1, 362, -1, -1, -1, -1, -1, -1, -1, -1, -1, -1,
    -1, -1, -1, -1, -1, -1, -1, -1, -1, -1, -1, -1, -1, -1, -1, -1, -1, -1, -1, -1, -1, -1, -1,
    -1, -1, -1, -1, -1, -1, -1, -1, -1, -1, -1, 384, -1, -1, -1, -1, 402, -1, -1, -1, -1, -1,
    -1, -1, -1, -1, -1, -1, -1, -1, -1, 46, -1, 74, -1, -1, -1, -1, 85, -1, -1, -1, -1, -1, -1,
    -1, -1, 68, -1, -1, 83, -1, 427, -1, -1, -1, -1, -1, -1, -1, -1, -1, -1, -1, -1, -1, -1,
    -1, -1, -1, -1, -1, -1, -1, -1, -1, -1, -1, -1, -1, -1, -1, -1, -1, -1, -1, -1, -1, -1, -1,
    -1, -1, -1, -1, -1, -1, 445, -1>>

check == <<
    -1, -1, -1, -1, -1, -1, -1, -1, -1, -1, -1, -1, -1, -1, -1, -1, -1, -1, -1, -1, -1, -1, -1,
    -1, -1, -1, -1, -1, -1, -1, -1, -1, -1, -1, -1, -1, -1, -1, -1, -1, -1, -1, -1, -1, 0, 0,
    0, -1, -1, -1, -1, -1, -1, -1, -1, -1, -1, -1, -1, -1, -1, -1, -1, -1, -1, -1, -1, -1, -1,
    -1, -1, -1, -1, -1, -1, -1, -1, -1, -1, -1, -1, -1, -1, -1, -1, -1, -1, -1, -1, -1, -1, 0,
    -1, 0, -1, -1, -1, 0, 0, 0, 0, 0, 0, 0, 0, 0, 0, 0, 0, 0, 0, 0, 0, 0, 0, 0, 0, 0, 0, 0, 0,
    0, 0, 98, 98, 147, 0, 98, 99, 147, 99, 98, 99, 147, 100, 99, 99, 98, 171, 147, 270, 159,
    99, 98, 322, 147, 135, 98, 99, 152, 135, 207, 99, 152, 135, 134, 221, 152, 310, 319, 135,
    319, 310, 152, 199, 520, 135, 134, 199, 152, 221, 134, 199, 214, 183, 522, 221, 214, 199,
    522, 539, 214, 527, 536, 199, 536, 527, 214, -1, -1, 216, 373, 100, 214, 216, 100, 100,
    102, 216, 100, 100, 102, 102, 373, 216, 102, 100, 373, -1, -1, 216, 102, 100, -1, 100, 240,
    100, 102, 103, 240, -1, 102, 103, 240, 103, -1, 103, -1, -1, 240, -1, -1, 103, 242, -1,
    240, -1, 242, 103, -1, 103, 242, 103, -1, 104, -1, 266, 242, 104, -1, 266, 104, 104, 242,
    266, 268, -1, 296, 104, 268, 266, 296, -1, 268, 104, 296, 104, -1, 104, 268, 266, 296, 106,
    -1, 301, 268, 106, 296, 301, 107, 106, 106, 301, 107, -1, -1, 106, 107, 301, 107, 110, -1,
    106, 107, 301, -1, 106, -1, 303, 107, 108, 107, 303, 107, 108, -1, 303, -1, 108, 324, 108,
    108, 303, 324, 108, -1, -1, 324, 303, 108, 108, -1, 108, 324, 108, -1, 109, 350, -1, 324,
    109, 350, -1, -1, 109, 350, -1, -1, 109, -1, 109, 350, -1, -1, -1, 372, 109, 350, 110, 372,
    109, -1, 110, 372, -1, -1, 110, -1, -1, 372, -1, 110, 110, 112, -1, 372, 387, 112, 110, -1,
    387, 112, 110, 116, 387, -1, -1, 112, 112, -1, 387, 113, -1, 112, -1, 113, 387, 112, 114,
    113, 412, -1, 114, -1, 412, 113, 114, 113, 412, 115, -1, 113, 114, 115, 412, 114, 115, 115,
    114, -1, 412, -1, 114, 115, 406, -1, 423, 115, 406, 115, 423, -1, 406, 115, 423, -1, -1,
    -1, 406, -1, 423, 116, -1, -1, 406, 116, 423, -1, 116, 116, 438, -1, -1, -1, 438, 116, -1,
    -1, 438, 116, 116, 116, -1, 116, 438, 116, -1, 449, 453, 455, 438, 449, 453, 455, -1, 449,
    453, 455, -1, -1, -1, 449, 453, 455, -1, -1, 118, 449, 453, 455, 118, 500, -1, -1, 118,
    500, -1, -1, -1, 500, 118, -1, -1, -1, -1, 500, 118, 118, 119, 505, 118, 500, 119, 505, -1,
    119, 119, 505, 122, 122, 122, 122, 119, 505, -1, -1, -1, 120, 119, 505, 119, 120, 119, -1,
    541, 120, -1, 120, 541, 121, 120, 120, 541, 121, -1, -1, 120, 120, 541, 120, 120, 120, 585,
    121, 541, -1, 585, -1, -1, 121, 585, -1, -1, 121, -1, 122, 585, 122, -1, -1, -1, 122, 585,
    -1, -1, 122, -1, -1, 122, 122, 122, 122, 122, -1, -1, 122, -1, -1, -1, -1, -1, 122, -1, -1,
    -1, 122, 122>>

remainList == <<
    -1, -1, -1, -1, -1, -1, -1, -1, -1, -1, -1, -1, -1, -1, -1, -1, -1, -1, -1, -1, -1, -1, -1,
    -1, -1, -1, -1, -1, -1, -1, -1, -1, -1, -1, -1, -1, -1, -1, -1, -1, -1, -1, -1, -1, 0, 0,
    0, -1, -1, -1, -1, -1, -1, -1, -1, -1, -1, -1, -1, -1, -1, -1, -1, -1, -1, -1, -1, -1, -1,
    -1, -1, -1, -1, -1, -1, -1, -1, -1, -1, -1, -1, -1, -1, -1, -1, -1, -1, -1, -1, -1, -1, 0,
    -1, 0, -1, -1, -1, 0, -1, -1, -1, 0, -1, -1, -1, 0, -1, -1, -1, -1, 0, 0, -1, -1, -1, -1,
    -1, 0, -1, -1, -1, -1, -1, 0, 1, 0, 0, 0, 0, 0, 1, 0, 0, 0, -1, -1, 0, 0, 0, 0, 0, 0, 0, 0,
    0, 0, 0, -1, 0, 0, 0, 0, -1, 0, 0, 0, 0, 0, 0, -1, 0, 0, 0, 0, 0, 2, 0, 0, 0, 0, 0, -1, 0,
    0, 0, 0, 0, 0, 0, 0, 0, 0, 0, -1, 0, 0, 0, 0, -1, -1, 0, 0, 0, 0, 0, 1, 0, 0, 0, -1, 0, 0,
    1, 0, 0, 0, 0, -1, -1, -1, 0, 0, 0, -1, -1, 0, -1, 0, 0, 0, -1, -1, 0, 0, 1, -1, 0, -1, -1,
    0, -1, -1, 0, 0, -1, 0, -1, 0, 0, -1, -1, 0, -1, -1, 0, -1, 0, 0, 0, -1, 0, 1, 0, 0, 0, 0,
    -1, 0, 0, 0, 0, 0, -1, 0, 0, 0, -1, -1, -1, 0, -1, 0, 0, -1, 0, 0, 0, 0, 0, 0, 0, 1, 0, 0,
    -1, -1, 0, 0, 0, 1, 0, -1, 0, 0, 0, -1, -1, -1, 0, 0, 0, -1, 0, -1, 0, -1, 0, -1, 0, 0, -1,
    1, 0, 0, 0, -1, -1, 0, 0, -1, 0, -1, -1, 0, -1, -1, 0, 0, -1, 0, 0, 0, -1, -1, 0, 0, -1,
    -1, 1, -1, 0, 0, -1, -1, -1, 0, 0, 0, 0, 0, -1, -1, 0, 0, -1, -1, 0, -1, -1, 0, -1, 0, 0,
    0, -1, 0, 0, 0, 0, -1, 0, 0, -1, -1, 0, -1, -1, 0, 1, -1, 0, 0, -1, 0, -1, 0, 0, -1, 0, 0,
    0, -1, 0, -1, 0, 0, 0, 1, 0, 0, -1, 0, 0, 0, 0, 1, -1, 0, 0, -1, 0, -1, -1, 0, 0, -1, 0, 1,
    0, 0, 0, -1, 0, -1, 0, -1, -1, -1, 0, -1, 0, 0, -1, -1, 0, 0, 0, -1, -1, 0, 0, -1, -1, -1,
    0, 0, -1, -1, 0, -1, 1, 0, -1, -1, 0, -1, -1, 0, 0, 0, 0, 0, 0, 0, -1, 0, 0, 0, -1, -1, -1,
    0, 0, 0, -1, -1, 0, 0, 0, 0, 0, 0, -1, -1, 0, 0, -1, -1, -1, 0, 0, -1, -1, -1, -1, 0, 0, 1,
    0, 0, -1, 0, 0, 0, -1, -1, 0, 0, 0, 0, 0, 0, 0, 0, -1, -1, -1, 0, 0, 0, 1, 0, -1, -1, 0, 0,
    -1, -1, 0, 0, 0, 0, 0, 0, -1, -1, -1, 0, 0, -1, 1, -1, 0, 0, 0, -1, 0, -1, -1, 0, 0, -1,
    -1, 1, -1, 0, 0, 0, -1, -1, -1, 0, 0, -1, -1, 0, -1, -1, 0, 0, 0, 0, 0, -1, -1, 0, -1, -1,
    -1, -1, -1, 0, -1, -1, -1, -1, 1>>

hiraganaList == <<
    <<>>, <<>>, <<>>, <<>>, <<>>, <<>>, <<>>, <<>>, <<>>, <<>>, <<>>, <<>>, <<>>, <<>>, <<>>,
    <<>>, <<>>, <<>>, <<>>, <<>>, <<>>, <<>>, <<>>, <<>>, <<>>, <<>>, <<>>, <<>>, <<>>, <<>>,
    <<>>, <<>>, <<>>, <<>>, <<>>, <<>>, <<>>, <<>>, <<>>, <<>>, <<>>, <<>>, <<>>, <<>>,
    <<12289>>, <<12540>>, <<12290>>, <<>>, <<>>, <<>>, <<>>, <<>>, <<>>, <<>>, <<>>, <<>>,
    <<>>, <<>>, <<>>, <<>>, <<>>, <<>>, <<>>, <<>>, <<>>, <<>>, <<>>, <<>>, <<>>, <<>>, <<>>,
    <<>>, <<>>, <<>>, <<>>, <<>>, <<>>, <<>>, <<>>, <<>>, <<>>, <<>>, <<>>, <<>>, <<>>, <<>>,
    <<>>, <<>>, <<>>, <<>>, <<>>, <<12300>>, <<>>, <<12301>>, <<>>, <<>>, <<>>, <<12354>>,
    <<>>, <<>>, <<>>, <<12360>>, <<>>, <<>>, <<>>, <<12356>>, <<>>, <<>>, <<>>, <<>>,
    <<12435>>, <<12362>>, <<>>, <<>>, <<>>, <<>>, <<>>, <<12358>>, <<>>, <<>>, <<>>, <<>>,
    <<>>, <<12400>>, <<12387>>, <<12403, 12419>>, <<12316>>, <<12409>>, <<12363>>,
    <<12403, 12359>>, <<12387>>, <<12403>>, <<12379>>, <<12403, 12355>>, <<>>, <<>>, <<12375>>,
    <<12412>>, <<12391, 12421>>, <<12403, 12423>>, <<12405, 12421>>, <<12387>>, <<12371>>,
    <<12406>>, <<12430>>, <<12403, 12421>>, <<12385, 12419>>, <<>>, <<12367>>,
    <<12385, 12419>>, <<12385, 12359>>, <<12390, 12421>>, <<>>, <<12385, 12359>>, <<12385>>,
    <<12391, 12355>>, <<12405, 12419>>, <<12385, 12355>>, <<12533>>, <<>>, <<12385, 12423>>,
    <<12387>>, <<12534>>, <<12385, 12423>>, <<12391, 12419>>, <<119>>, <<12385, 12421>>,
    <<12393, 12357>>, <<12391, 12359>>, <<12385, 12421>>, <<12405, 12423>>, <<>>,
    <<12391, 12355>>, <<12393, 12353>>, <<12387>>, <<12433>>, <<12405, 12421>>,
    <<12393, 12359>>, <<12391, 12423>>, <<12432>>, <<12430>>, <<12393, 12355>>, <<12533>>,
    <<>>, <<12391, 12421>>, <<12387>>, <<12534>>, <<12393, 12361>>, <<>>, <<>>,
    <<12386, 12419>>, <<12390, 12355>>, <<12384>>, <<12393, 12357>>, <<12386, 12359>>,
    <<12387>>, <<12391>>, <<12405, 12353>>, <<12386, 12355>>, <<>>, <<12386>>,
    <<12405, 12359>>, <<12387>>, <<12392, 12357>>, <<12386, 12423>>, <<12405, 12355>>,
    <<12393>>, <<>>, <<>>, <<>>, <<12386, 12421>>, <<12405, 12361>>, <<12389>>, <<>>, <<>>,
    <<12368, 12353>>, <<>>, <<12405>>, <<12364>>, <<12368, 12359>>, <<>>, <<>>, <<12370>>,
    <<12368, 12355>>, <<12387>>, <<>>, <<12366>>, <<>>, <<>>, <<12368, 12361>>, <<>>, <<>>,
    <<12372>>, <<12366, 12419>>, <<>>, <<12368, 12357>>, <<>>, <<12366, 12359>>, <<12368>>,
    <<>>, <<>>, <<12366, 12355>>, <<>>, <<>>, <<12399>>, <<>>, <<12405, 12353>>,
    <<12366, 12423>>, <<12408>>, <<>>, <<12405, 12359>>, <<12387>>, <<12402>>,
    <<12366, 12421>>, <<12405, 12355>>, <<12402, 12419>>, <<>>, <<12376, 12419>>, <<12411>>,
    <<12402, 12359>>, <<12405, 12361>>, <<12376, 12359>>, <<>>, <<12402, 12355>>, <<12405>>,
    <<12376, 12355>>, <<>>, <<>>, <<>>, <<12402, 12423>>, <<>>, <<12376, 12423>>,
    <<12376, 12419>>, <<>>, <<12367, 12353>>, <<12402, 12421>>, <<12376, 12359>>,
    <<12376, 12421>>, <<12367, 12359>>, <<12363>>, <<12376>>, <<12387>>, <<12367, 12355>>,
    <<12369>>, <<>>, <<>>, <<12376, 12423>>, <<12365>>, <<12367, 12361>>, <<12387>>, <<12435>>,
    <<>>, <<12376, 12421>>, <<12371>>, <<12367, 12357>>, <<>>, <<>>, <<>>, <<12365, 12419>>,
    <<12367>>, <<12353>>, <<>>, <<12365, 12359>>, <<>>, <<12359>>, <<>>, <<12365, 12355>>,
    <<>>, <<12355>>, <<12419>>, <<>>, <<12387>>, <<12365, 12423>>, <<12359>>, <<12361>>, <<>>,
    <<>>, <<12355>>, <<12365, 12421>>, <<>>, <<12357>>, <<>>, <<>>, <<12423>>, <<>>, <<>>,
    <<12414>>, <<12415, 12419>>, <<>>, <<12421>>, <<12417>>, <<12415, 12359>>, <<>>, <<>>,
    <<12415>>, <<12415, 12355>>, <<>>, <<>>, <<12387>>, <<>>, <<12418>>, <<12415, 12423>>,
    <<>>, <<>>, <<>>, <<12395, 12419>>, <<12416>>, <<12415, 12421>>, <<12394>>,
    <<12395, 12359>>, <<>>, <<>>, <<12397>>, <<12395, 12355>>, <<>>, <<>>, <<12395>>, <<>>,
    <<>>, <<12395, 12423>>, <<>>, <<12435>>, <<12398>>, <<12401>>, <<>>, <<12395, 12421>>,
    <<12404, 12419>>, <<12410>>, <<12396>>, <<>>, <<12404, 12359>>, <<12404>>, <<>>, <<>>,
    <<12404, 12355>>, <<>>, <<>>, <<12413>>, <<12387>>, <<>>, <<12404, 12423>>,
    <<12367, 12353>>, <<>>, <<12407>>, <<>>, <<12367, 12359>>, <<12404, 12421>>, <<>>,
    <<12425>>, <<12367, 12355>>, <<12426, 12419>>, <<>>, <<12428>>, <<>>, <<12426, 12359>>,
    <<12367, 12361>>, <<12426>>, <<12387>>, <<12426, 12355>>, <<12373>>, <<>>, <<12367>>,
    <<12429>>, <<12379>>, <<12426, 12423>>, <<12387>>, <<>>, <<12375>>, <<12427>>, <<>>,
    <<12426, 12421>>, <<>>, <<>>, <<12381>>, <<12375, 12419>>, <<>>, <<12375, 12419>>,
    <<12387>>, <<12375, 12359>>, <<12377>>, <<12375, 12359>>, <<>>, <<12375>>, <<>>,
    <<12375, 12355>>, <<>>, <<>>, <<>>, <<12375, 12423>>, <<>>, <<12375, 12423>>, <<12383>>,
    <<>>, <<>>, <<12375, 12421>>, <<12390>>, <<12375, 12421>>, <<>>, <<>>, <<12385>>,
    <<12390, 12419>>, <<>>, <<>>, <<>>, <<12390, 12359>>, <<12392>>, <<>>, <<>>,
    <<12390, 12355>>, <<>>, <<12387>>, <<12388>>, <<>>, <<>>, <<12390, 12423>>, <<>>, <<>>,
    <<12388, 12353>>, <<12392, 12353>>, <<12385, 12419>>, <<12390, 12421>>, <<12388, 12359>>,
    <<12392, 12359>>, <<12385, 12359>>, <<>>, <<12388, 12355>>, <<12392, 12355>>,
    <<12385, 12355>>, <<>>, <<>>, <<>>, <<12388, 12361>>, <<12392, 12361>>, <<12385, 12423>>,
    <<>>, <<>>, <<12436, 12353>>, <<12388>>, <<12392, 12357>>, <<12385, 12421>>,
    <<12436, 12359>>, <<12436, 12419>>, <<>>, <<>>, <<12436, 12355>>, <<12436, 12359>>, <<>>,
    <<>>, <<>>, <<12436, 12355>>, <<12436, 12361>>, <<>>, <<>>, <<>>, <<>>, <<12436, 12423>>,
    <<12436>>, <<12387>>, <<12431>>, <<12358, 12353>>, <<>>, <<12436, 12421>>,
    <<12358, 12359>>, <<12358, 12359>>, <<>>, <<>>, <<12358, 12355>>, <<12358, 12355>>,
    <<8229>>, <<12316>>, <<8230>>, <<12539>>, <<12434>>, <<12358, 12361>>, <<>>, <<>>, <<>>,
    <<12353>>, <<12358>>, <<12358>>, <<12387>>, <<12359>>, <<>>, <<>>, <<12419>>, <<12355>>,
    <<>>, <<>>, <<12359>>, <<12420>>, <<12435>>, <<12361>>, <<12355>>, <<12356, 12359>>, <<>>,
    <<>>, <<>>, <<12357>>, <<12423>>, <<>>, <<12387>>, <<>>, <<12376, 12419>>, <<12424>>,
    <<12421>>, <<>>, <<12376, 12359>>, <<>>, <<>>, <<12422>>, <<12376, 12355>>, <<>>, <<>>,
    <<12387>>, <<>>, <<12302>>, <<12376, 12423>>, <<12303>>, <<>>, <<>>, <<>>, <<12374>>,
    <<12376, 12421>>, <<>>, <<>>, <<12380>>, <<>>, <<>>, <<8592>>, <<12376>>, <<8595>>,
    <<8593>>, <<8594>>, <<>>, <<>>, <<12382>>, <<>>, <<>>, <<>>, <<>>, <<>>, <<12378>>, <<>>,
    <<>>, <<>>, <<>>, <<12387>>>>

(***************************************************************************)
(* RomanEntry and RomajiProcessor1.  A RomajiPredictiveResult is           *)
(* [prefix, suffixes], the suffixes as the set of the strings in the list. *)
(***************************************************************************)
\* RomanEntry._calculateIndex, for code units below 256; charCodeAt of a
\* negative index is NaN, which |= takes as 0
calculateIndex(roman, start, end) ==
    LET c(i) == IF i + start >= 0 /\ i + start < Len(roman) /\ i + start < end
                THEN roman[i + start + 1] ELSE 0
    IN  ((c(0) * 256 + c(1)) * 256 + c(2)) * 256 + c(3)

\* the array whose element i is f[i], held as a sequence
ArrayOf(f) == SubSeq(f, 1, Len(f))

\* entries.sort((a, b) => a.index - b.index), a stable sort: place[i] is the
\* place of entries[i] in the sorted array
SortByIndex(entries) ==
    LET index == ArrayOf([i \in 1..Len(entries) |-> calculateIndex(entries[i][1], 0, 4)])
        place == ArrayOf([i \in 1..Len(entries) |->
                    1 + Cardinality({j \in 1..Len(entries) :
                            index[j] < index[i] \/ (index[j] = index[i] /\ j < i)})])
    IN  ArrayOf([n \in 1..Len(entries) |->
                    entries[CHOOSE i \in 1..Len(entries) : place[i] = n]])

\* roman_indexes of the constructor
IndexesOf(sorted) ==
    ArrayOf([i \in 1..Len(sorted) |-> calculateIndex(sorted[i][1], 0, 4)])

\* new RomajiProcessor1(entries)
RomajiProcessor1(entries) ==
    [roman_entries |-> SortByIndex(entries), roman_indexes |-> IndexesOf(SortByIndex(entries))]

binarySearch(a, fromIndex, toIndex, k) == binarySearchUint16(a, fromIndex, toIndex - 1, k)

\* lower, or startIndex, after the first binary search of a narrowing step
LowerOf(found) == IF found >= 0 THEN found ELSE -found - 1

\* 1 << n for the shift counts 24, 16, 8, 0 and, since the count is taken
\* modulo 32, -8
ShiftLeft1(n) == 256 ^ ((n % 32) \div 8)

\* the inner while loop of romajiToHiragana and romajiToHiraganaPredictively;
\* found is the result of the first binary search of the step
RECURSIVE Narrow(_, _, _, _, _, _, _)
NarrowStep(this, romaji, start, end, lastFound, upper, found) ==
    Narrow(this, romaji, start, end + 1,
           IF found >= 0 THEN found ELSE lastFound,
           LowerOf(found),
           LowerOf(binarySearch(this.roman_indexes, LowerOf(found), upper,
                                calculateIndex(romaji, start, end)
                                    + ShiftLeft1(32 - 8 * (end - start)))))

Narrow(this, romaji, start, end, lastFound, lower, upper) ==
    IF upper - lower > 1 /\ end <= Len(romaji)
    THEN NarrowStep(this, romaji, start, end, lastFound, upper,
                    binarySearch(this.roman_indexes, lower, upper,
                                 calculateIndex(romaji, start, end)))
    ELSE [lastFound |-> lastFound, lower |-> lower, upper |-> upper, end |-> end]

\* the outer while loop; n is the state the inner loop ends in
RECURSIVE Processor1From(_, _, _, _)
Processor1Step(this, romaji, start, hiragana, n) ==
    IF n.lastFound >= 0
    THEN Processor1From(this, romaji,
                        start + Len(this.roman_entries[n.lastFound + 1][1])
                              - this.roman_entries[n.lastFound + 1][3],
                        hiragana \o this.roman_entries[n.lastFound + 1][2])
    ELSE Processor1From(this, romaji, start + 1, Append(hiragana, romaji[start + 1]))

Processor1From(this, romaji, start, hiragana) ==
    IF start >= Len(romaji) THEN hiragana
    ELSE Processor1Step(this, romaji, start, hiragana,
                        Narrow(this, romaji, start, start + 1, -1, 0, Len(this.roman_indexes)))

RomajiProcessor1romajiToHiragana(this, romaji) == Processor1From(this, romaji, 0, <<>>)

\* the for loop of findRomanEntryPredicatively; the result is the set of the
\* indexes in roman_entries of the entries returned
RECURSIVE FindFrom(_, _, _, _, _, _)
FindStep(this, roman, offset, i, lower, upper) ==
    IF upper - lower = 1 THEN {lower}
    ELSE FindFrom(this, roman, offset, i + 1, lower, upper)

FindBetween(this, roman, offset, i, endIndex, found) ==
    FindStep(this, roman, offset, i, LowerOf(found),
             LowerOf(binarySearch(this.roman_indexes, LowerOf(found), endIndex,
                                  calculateIndex(roman, offset, offset + i + 1)
                                      + ShiftLeft1(24 - 8 * i))))

FindFrom(this, roman, offset, i, startIndex, endIndex) ==
    IF i >= 4 \/ Len(roman) <= offset + i THEN {j \in startIndex..(endIndex - 1) : TRUE}
    ELSE FindBetween(this, roman, offset, i, endIndex,
                     binarySearch(this.roman_indexes, startIndex, endIndex,
                                  calculateIndex(roman, offset, offset + i + 1)))

findRomanEntryPredicatively(this, roman, offset) ==
    FindFrom(this, roman, offset, 0, 0, Len(this.roman_indexes))

\* the strings an entry re of the candidate range adds to the set
Completions(this, romaji, re, end) ==
    IF re[3] > 0
    THEN {re[2] \o this.roman_entries[j + 1][2] :
            j \in {x \in findRomanEntryPredicatively(this, romaji, end - 1 - re[3]) :
                     this.roman_entries[x + 1][3] = 0}}
    ELSE {re[2]}

\* new RomajiPredictiveResult(...) at the end of a predictive branch
PredictiveResultOf(prefix, list) ==
    IF Cardinality(list) = 1
    THEN [prefix |-> prefix \o (CHOOSE e \in list : TRUE), suffixes |-> {<<>>}]
    ELSE [prefix |-> prefix, suffixes |-> list]

RECURSIVE Predictively1From(_, _, _, _)
Predictively1Step(this, romaji, start, hiragana, n) ==
    IF n.end > Len(romaji) /\ n.upper - n.lower > 1
    THEN PredictiveResultOf(hiragana,
            UNION {Completions(this, romaji, this.roman_entries[i + 1], n.end) :
                     i \in n.lower..(n.upper - 1)})
    ELSE IF n.lastFound >= 0
    THEN Predictively1From(this, romaji,
                           start + Len(this.roman_entries[n.lastFound + 1][1])
                                 - this.roman_entries[n.lastFound + 1][3],
                           hiragana \o this.roman_entries[n.lastFound + 1][2])
    ELSE Predictively1From(this, romaji, start + 1, Append(hiragana, romaji[start + 1]))

Predictively1From(this, romaji, start, hiragana) ==
    IF start >= Len(romaji) THEN [prefix |-> hiragana, suffixes |-> {<<>>}]
    ELSE Predictively1Step(this, romaji, start, hiragana,
                           Narrow(this, romaji, start, start + 1, -1, 0, Len(this.roman_indexes)))

RomajiProcessor1romajiToHiraganaPredictively(this, romaji) ==
    Predictively1From(this, romaji, 0, <<>>)

(***************************************************************************)
(* DoubleArray and RomajiProcessor2                                        *)
(***************************************************************************)
\* new DoubleArray(base, check, code, 128) in a new RomajiProcessor2
RomajiProcessor2(trieBase, trieCheck, hiraganas, remains) ==
    [trie |-> [base |-> trieBase, check |-> trieCheck],
     hiraganaList |-> hiraganas, remainList |-> remains]

\* DoubleArray.traverse; check[m] outside the array is undefined
DoubleArrayTraverse(trie, n, k) ==
    IF trie.base[n + 1] + k >= 0 /\ trie.base[n + 1] + k < Len(trie.check)
       /\ trie.check[trie.base[n + 1] + k + 1] = n
    THEN trie.base[n + 1] + k ELSE -1

\* the nodes commonPrefixSearch(key) yields, from the node index on
RECURSIVE commonPrefixSearch(_, _, _, _)
commonPrefixSearch(trie, k, index, offset) ==
    IF index = -1 THEN <<>>
    ELSE <<index>> \o commonPrefixSearch(trie, k,
                         IF offset = Len(k) THEN -1
                         ELSE DoubleArrayTraverse(trie, index, k[offset + 1]),
                         offset + 1)

\* DoubleArray.lookup from node n and character i on; code units are 1 or more
RECURSIVE DoubleArrayLookup(_, _, _, _)
DoubleArrayLookup(trie, str, i, n) ==
    IF i > Len(str) \/ n = -1 THEN n
    ELSE DoubleArrayLookup(trie, str, i + 1, DoubleArrayTraverse(trie, n, str[i]))

\* the set of the nodes visitRecursive(n) yields; charSize is 128
RECURSIVE visitRecursive(_, _)
visitRecursive(trie, n) ==
    {n} \cup UNION {visitRecursive(trie, m) :
                      m \in {x \in (trie.base[n + 1] + 1)..(trie.base[n + 1] + 128) :
                               x >= 0 /\ x < Len(trie.check) /\ trie.check[x + 1] = n}}

\* the set of the nodes DoubleArray.predictiveSearch(key) yields, n being
\* lookup(key)
DoubleArrayPredictiveSearch(trie, n) == IF n = -1 THEN {} ELSE visitRecursive(trie, n)

\* the last node of nodes that has an entry (remainList is not -1), or -1
LongestNode(this, nodes) ==
    IF \A i \in 1..Len(nodes) : this.remainList[nodes[i] + 1] = -1 THEN -1
    ELSE nodes[CHOOSE i \in 1..Len(nodes) :
                 /\ this.remainList[nodes[i] + 1] # -1
                 /\ \A j \in (i + 1)..Len(nodes) : this.remainList[nodes[j] + 1] = -1]

\* the while loop; length is the number of nodes the common prefix search
\* yielded
RECURSIVE Processor2From(_, _, _, _)
Processor2Step(this, romaji, cursor, buffer, longestNode, length) ==
    IF longestNode = -1
    THEN Processor2From(this, romaji, cursor + 1, Append(buffer, romaji[cursor + 1]))
    ELSE Processor2From(this, romaji, cursor + (length - 1) - this.remainList[longestNode + 1],
                        buffer \o this.hiraganaList[longestNode + 1])

Processor2Nodes(this, romaji, cursor, buffer, nodes) ==
    Processor2Step(this, romaji, cursor, buffer, LongestNode(this, nodes), Len(nodes))

Processor2From(this, romaji, cursor, buffer) ==
    IF cursor >= Len(romaji) THEN buffer
    ELSE Processor2Nodes(this, romaji, cursor, buffer,
            commonPrefixSearch(this.trie, SubSeq(romaji, cursor + 1, Len(romaji)), 0, 0))

RomajiProcessor2romajiToHiragana(this, romaji) == Processor2From(this, romaji, 0, <<>>)

RECURSIVE Predictively2From(_, _, _, _)
Predictively2Step(this, romaji, cursor, builder, longestNode, length) ==
    IF length + cursor - 1 = Len(romaji)
    THEN PredictiveResultOf(builder,
            {this.hiraganaList[n + 1] :
               n \in {x \in DoubleArrayPredictiveSearch(this.trie,
                               DoubleArrayLookup(this.trie,
                                   SubSeq(romaji, cursor + 1, Len(romaji)), 1, 0)) :
                        this.remainList[x + 1] # -1}})
    ELSE IF longestNode >= 0
    THEN Predictively2From(this, romaji, cursor + length - 1 - this.remainList[longestNode + 1],
                           builder \o this.hiraganaList[longestNode + 1])
    ELSE Predictively2From(this, romaji, cursor + 1, Append(builder, romaji[cursor + 1]))

Predictively2Nodes(this, romaji, cursor, builder, nodes) ==
    Predictively2Step(this, romaji, cursor, builder, LongestNode(this, nodes), Len(nodes))

Predictively2From(this, romaji, cursor, builder) ==
    IF cursor >= Len(romaji) THEN [prefix |-> builder, suffixes |-> {<<>>}]
    ELSE Predictively2Nodes(this, romaji, cursor, builder,
            commonPrefixSearch(this.trie, SubSeq(romaji, cursor + 1, Len(romaji)), 0, 0))

RomajiProcessor2romajiToHiraganaPredictively(this, romaji) ==
    Predictively2From(this, romaji, 0, <<>>)

(***************************************************************************)
(* TernaryRegexNode and TernaryRegexGenerator.  The siblings of a node are *)
(* kept in an AA tree; null is the node of level 0.                        *)
(***************************************************************************)
null == [level |-> 0]
IsNull(t) == t.level = 0

\* the node insert makes for x when it reaches null
TernaryRegexNode(x) ==
    [value |-> x, child |-> null, left |-> null, right |-> null, level |-> 1]

skew(t) ==
    IF IsNull(t) THEN t
    ELSE IF IsNull(t.left) THEN t
    ELSE IF t.left.level = t.level
    THEN [t.left EXCEPT !.right = [t EXCEPT !.left = t.left.right]]
    ELSE t

split(t) ==
    IF IsNull(t) THEN t
    ELSE IF IsNull(t.right) \/ IsNull(t.right.right) THEN t
    ELSE IF t.level = t.right.right.level
    THEN [t.right EXCEPT !.left = [t EXCEPT !.right = t.right.left],
                         !.level = t.right.level + 1]
    ELSE t

\* [node_, inserted] of insert(x, t); target is the node of value x in node_
RECURSIVE insert(_, _)
InsertLeft(t, r) ==
    [node |-> split(skew([t EXCEPT !.left = r.node])), inserted |-> r.inserted]

InsertRight(t, r) ==
    [node |-> split(skew([t EXCEPT !.right = r.node])), inserted |-> r.inserted]

insert(x, t) ==
    IF IsNull(t) THEN [node |-> TernaryRegexNode(x), inserted |-> TRUE]
    ELSE IF x < t.value THEN InsertLeft(t, insert(x, t.left))
    ELSE IF x > t.value THEN InsertRight(t, insert(x, t.right))
    ELSE [node |-> t, inserted |-> FALSE]

\* the node of value x among the siblings t: target of insert(x, ...)
RECURSIVE Target(_, _)
Target(t, x) ==
    IF x < t.value THEN Target(t.left, x)
    ELSE IF x > t.value THEN Target(t.right, x)
    ELSE t

\* the siblings t after target.child = c, target being the node of value x
RECURSIVE SetChild(_, _, _)
SetChild(t, x, c) ==
    IF x < t.value THEN [t EXCEPT !.left = SetChild(t.left, x, c)]
    ELSE IF x > t.value THEN [t EXCEPT !.right = SetChild(t.right, x, c)]
    ELSE [t EXCEPT !.child = c]

RECURSIVE add(_, _, _)
\* add descending below the target even when a word already ends there
AddBelowAlways(r, target, word, offset) ==
    SetChild(r.node, target.value, add(target.child, word, offset + 1))

AddBelow(r, target, word, offset) ==
    IF r.inserted \/ ~IsNull(target.child)
    THEN SetChild(r.node, target.value, add(target.child, word, offset + 1))
    ELSE r.node

AddAt(r, word, offset) == AddBelow(r, Target(r.node, word[offset + 1]), word, offset)

add(node, word, offset) ==
    IF offset < Len(word) THEN AddAt(insert(word[offset + 1], node), word, offset)
    ELSE null

RECURSIVE traverseSiblings(_)
traverseSiblings(node) ==
    IF IsNull(node) THEN <<>>
    ELSE traverseSiblings(node.left) \o <<node>> \o traverseSiblings(node.right)

\* const ESCAPE = "\\.[]{}()*+-?^$|"
ESCAPE == {92, 46, 91, 93, 123, 125, 40, 41, 42, 43, 45, 63, 94, 36, 124}

\* TernaryRegexGenerator.getDEFAULT()
getDEFAULT ==
    [or |-> <<124>>, beginGroup |-> <<40>>, endGroup |-> <<41>>,
     beginClass |-> <<91>>, endClass |-> <<93>>, newline |-> <<>>,
     root |-> null, escapedCharacters |-> ESCAPE, escapeCharacterLeader |-> <<92>>]

\* TernaryRegexGenerator.add(word): the generator after the call
GeneratorAdd(this, word) ==
    IF Len(word) = 0 THEN this ELSE [this EXCEPT !.root = add(this.root, word, 0)]

\* the character of node n as generateStub writes it
Escaped(this, n) ==
    IF n.value < 128 /\ n.value \in this.escapedCharacters
    THEN this.escapeCharacterLeader \o <<n.value>> ELSE <<n.value>>

\* generateStub(node), siblings being the nodes traverseSiblings(node) yields
\* and haschild the number of them that have a child
RECURSIVE generateStub(_, _)
\* buf after the loop over the nodes without a child
StubLeaves(this, siblings, haschild) ==
    (IF Len(siblings) > 1 /\ haschild > 0 THEN this.beginGroup ELSE <<>>)
    \o (IF Len(siblings) - haschild > 1 THEN this.beginClass ELSE <<>>)
    \o Flatten([i \in 1..Len(siblings) |->
                  IF IsNull(siblings[i].child) THEN Escaped(this, siblings[i]) ELSE <<>>])
    \o (IF Len(siblings) - haschild > 1 THEN this.endClass ELSE <<>>)

\* what the loop over the nodes with a child adds to buf
StubBranches(this, siblings, haschild) ==
    (IF Len(siblings) - haschild > 0 THEN this.or ELSE <<>>)
    \o Flatten([i \in 1..Len(siblings) |->
                  IF IsNull(siblings[i].child) THEN <<>>
                  ELSE Escaped(this, siblings[i]) \o this.newline
                       \o generateStub(this, siblings[i].child)
                       \o (IF haschild > 1 THEN this.or ELSE <<>>)])

\* buf.substring(0, buf.length - this.or.length) when haschild > 1
StubTrimmed(this, buf, haschild) ==
    IF haschild > 1 THEN SubSeq(buf, 1, Len(buf) - Len(this.or)) ELSE buf

StubOf(this, siblings, haschild) ==
    (IF haschild > 0
     THEN StubTrimmed(this, StubLeaves(this, siblings, haschild)
                            \o StubBranches(this, siblings, haschild), haschild)
     ELSE StubLeaves(this, siblings, haschild))
    \o (IF Len(siblings) > 1 /\ haschild > 0 THEN this.endGroup ELSE <<>>)

StubOfSiblings(this, siblings) ==
    StubOf(this, siblings,
           Cardinality({i \in 1..Len(siblings) : ~IsNull(siblings[i].child)}))

generateStub(this, node) == StubOfSiblings(this, traverseSiblings(node))

generate(this) == IF IsNull(this.root) THEN <<>> ELSE generateStub(this, this.root)

(***************************************************************************)
(* lib/grapheme-regex.js: the pattern sources graphemeRegex and            *)
(* coreExtractRegex build.  A pattern source is a sequence of tokens: a    *)
(* character class or an escaped character stands as one token named after *)
(* what it holds, and every other token is the text the source has.  On    *)
(* top of the UCD slice the classes hold                                   *)
(*   r         U+000D CARRIAGE RETURN                                      *)
(*   c         U+200B ZERO WIDTH SPACE       (Control)                     *)
(*   T         U+11A8 HANGUL JONGSEONG KIYEOK                              *)
(*   k         U+0915 DEVANAGARI KA          (InCB=Consonant)              *)
(*   l         U+094D DEVANAGARI VIRAMA      (InCB=Linker, Extend)         *)
(***************************************************************************)
GcChars == {"a", "'", "v", "u", "p", "H", "L", "V", "T", "w", "x", "z", "R",
            "n", "r", "c", "k", "l"}

\* the characters of the slice each class token matches
GcClass ==
    [CR |-> {"r"}, LF |-> {"n"},
     Extend |-> {"'", "v", "u", "l"},
     ZWJ |-> {"z"},
     Control |-> {"c"},
     Precore |-> {"p"},
     Postcore |-> {"'", "v", "u", "z", "l"},
     CoreL |-> {"L"}, CoreV |-> {"V"}, CoreT |-> {"T"}, CoreLV |-> {"H"}, CoreLVT |-> {},
     CoreRI |-> {"R"},
     CoreExpic |-> {"w", "x"},
     CoreIncbConsonant |-> {"k"},
     CoreIncbLinker |-> {"l"},
     CoreIncbExLk |-> {"'", "v", "u", "z", "l"},
     CoreNonControl |-> GcChars \ {"n", "r", "c"}]

gcExtendStr == <<"Extend">>
gcZWJStr == <<"ZWJ">>
gcCrlfStr == <<"CR", "LF", "?", "|", "LF">>
gcControlStr == <<"Control">>
gcPrecoreStr == <<"Precore">>
gcPostcoreStr == <<"Postcore">>
gcCoreLStr == <<"CoreL">>
gcCoreVStr == <<"CoreV">>
gcCoreTStr == <<"CoreT">>
gcCoreLVStr == <<"CoreLV">>
gcCoreLVTStr == <<"CoreLVT">>
gcCoreRIStr == <<"CoreRI", "{2}">>
gcCoreExpicStr == <<"CoreExpic">>
gcCoreIncbConsonantStr == <<"CoreIncbConsonant">>
gcCoreIncbLinkerStr == <<"CoreIncbLinker">>
gcCoreIncbExLkStr == <<"CoreIncbExLk">>
gcCoreNonControlStr == <<"CoreNonControl">>

\* typeof target !== 'string'
Undefined == <<"undefined">>

\* q2pl(s, q) when groupCount is n; q is * or +
q2pl(s, q, n) ==
    <<"(?=", "(?<", "gcr" \o ToString(n), ">">> \o s \o <<q, ")", ")",
      "\\k<", "gcr" \o ToString(n), ">">>

\* (new RegExp(str, 'u')).test(target) for a class, and for [RI]{2}
TestClass(str, target) == \E i \in 1..Len(target) : target[i] \in GcClass[str[1]]

TestRI(target) ==
    \E i \in 1..(Len(target) - 1) :
        target[i] \in GcClass.CoreRI /\ target[i + 1] \in GcClass.CoreRI

\* the components of gcCore(target), in the order they are pushed
gcCoreComponents(target) ==
    (IF \/ target = Undefined
        \/ TestClass(gcCoreLStr, target) \/ TestClass(gcCoreVStr, target)
        \/ TestClass(gcCoreTStr, target) \/ TestClass(gcCoreLVStr, target)
        \/ TestClass(gcCoreLVTStr, target)
     THEN << gcCoreLStr \o <<"*", "(?:">> \o gcCoreVStr \o <<"+", "|">> \o gcCoreLVStr
             \o gcCoreVStr \o <<"*", "|">> \o gcCoreLVTStr \o <<")">> \o gcCoreTStr
             \o <<"*", "|">> \o gcCoreLStr \o <<"+", "|">> \o gcCoreTStr \o <<"+">> >>
     ELSE <<>>)
    \o (IF target = Undefined \/ TestRI(target) THEN <<gcCoreRIStr>> ELSE <<>>)
    \o (IF target = Undefined \/ TestClass(gcCoreExpicStr, target)
        THEN << gcCoreExpicStr \o <<"(?:">> \o gcExtendStr \o <<"*">> \o gcZWJStr
                \o gcCoreExpicStr \o <<")", "*">> >>
        ELSE <<>>)
    \o (IF \/ target = Undefined
           \/ TestClass(gcCoreIncbConsonantStr, target) /\ TestClass(gcCoreIncbLinkerStr, target)
        THEN << gcCoreIncbConsonantStr \o <<"(?:">> \o gcCoreIncbExLkStr \o <<"*">>
                \o gcCoreIncbLinkerStr \o gcCoreIncbExLkStr \o <<"*">>
                \o gcCoreIncbConsonantStr \o <<")", "+">> >>
        ELSE <<>>)
    \o (IF target = Undefined \/ TestClass(gcCoreNonControlStr, target)
        THEN <<gcCoreNonControlStr>> ELSE <<>>)

gcCore(target, group) ==
    IF group
    THEN <<"(?:", "(">> \o JoinWith(gcCoreComponents(target), <<")", "|", "(">>) \o <<")", ")">>
    ELSE <<"(?:">> \o JoinWith(gcCoreComponents(target), <<"|">>) \o <<")">>

\* result2 of graphemeRegex(target) for a string target
GraphemeResult2(target) ==
    (IF TestClass(gcPrecoreStr, target) THEN gcPrecoreStr \o <<"*">> ELSE <<>>)
    \o gcCore(target, FALSE)
    \o (IF TestClass(gcPostcoreStr, target) THEN q2pl(gcPostcoreStr, "*", 0) ELSE <<>>)

\* graphemeRegex(target) with the quantifier on precore converted by q2pl too
graphemePatternAtomicPrecore(target) ==
    IF target # Undefined
    THEN <<"(?:">> \o gcCrlfStr
         \o (IF TestClass(gcControlStr, target) THEN <<"|">> \o gcControlStr ELSE <<>>)
         \o <<"|">>
         \o (IF TestClass(gcPrecoreStr, target) THEN q2pl(gcPrecoreStr, "*", 0) ELSE <<>>)
         \o gcCore(target, FALSE)
         \o (IF TestClass(gcPostcoreStr, target) THEN q2pl(gcPostcoreStr, "*", 1) ELSE <<>>)
         \o <<")">>
    ELSE <<"(?:">> \o gcCrlfStr \o <<"|">> \o gcControlStr \o <<"|">>
         \o q2pl(gcPrecoreStr, "*", 0)
         \o gcCore(Undefined, FALSE) \o q2pl(gcPostcoreStr, "*", 1) \o <<")">>

\* graphemeRegex(target) of lib/grapheme-regex.js
graphemePattern(target) ==
    IF target # Undefined
    THEN <<"(?:">> \o gcCrlfStr
         \o (IF TestClass(gcControlStr, target) THEN <<"|">> \o gcControlStr ELSE <<>>)
         \o (IF GraphemeResult2(target) # <<>> THEN <<"|">> \o GraphemeResult2(target) ELSE <<>>)
         \o <<")">>
    ELSE <<"(?:">> \o gcCrlfStr \o <<"|">> \o gcControlStr \o <<"|">> \o gcPrecoreStr \o <<"*">>
         \o gcCore(Undefined, FALSE) \o q2pl(gcPostcoreStr, "*", 0) \o <<")">>

\* coreExtractRegex(group)
coreExtractPattern(group) ==
    <<"(?:", "(">> \o gcCrlfStr \o <<")", "|", "(">> \o gcControlStr \o <<")", "|">>
    \o gcPrecoreStr \o <<"*">> \o gcCore(Undefined, group) \o gcPostcoreStr \o <<"*", ")">>

(***************************************************************************)
(* new RegExp(source, 'ug') on a pattern source of the token form: the     *)
(* syntax tree of the source, and the backtracking matcher of ECMAScript   *)
(* over it.  A match state is [pos, caps]: the next position (1-based)     *)
(* and the captured texts; a matcher yields the states it can end in, in   *)
(* the order backtracking tries them.                                      *)
(***************************************************************************)
Quantifiers == {"*", "+", "?", "{2}"}

\* a class token matches the characters of its class, the dot every character
\* but the line terminators, any other token the character it is
Matches(tok, c) ==
    IF tok \in DOMAIN GcClass THEN c \in GcClass[tok]
    ELSE IF tok = "." THEN c \notin {"n", "r"}
    ELSE c = tok

\* a quantifier that follows the atom at..i-1 wraps it
Quantified(node, toks, i) ==
    IF i <= Len(toks) /\ toks[i] \in Quantifiers
    THEN [node |-> [type |-> toks[i], kid |-> node], next |-> i + 1]
    ELSE [node |-> node, next |-> i]

RECURSIVE ParseDisjunction(_, _)
RECURSIVE ParseAlternative(_, _, _)
RECURSIVE ParseMore(_, _, _)

\* Atom: a class, a group of one of the four kinds, or a back reference
ParseAtom(toks, i) ==
    IF toks[i] = "\\k<"
    THEN Quantified([type |-> "backref", name |-> toks[i + 1]], toks, i + 3)
    ELSE IF toks[i] = "(?<"
    THEN LET body == ParseDisjunction(toks, i + 3)
         IN  Quantified([type |-> "capture", name |-> toks[i + 1], kid |-> body.node],
                        toks, body.next + 1)
    ELSE IF toks[i] \in {"(?:", "(", "(?="}
    THEN LET body == ParseDisjunction(toks, i + 1)
         IN  Quantified([type |-> toks[i], kid |-> body.node], toks, body.next + 1)
    ELSE Quantified([type |-> "class", name |-> toks[i]], toks, i + 1)

\* Alternative: the terms up to the next | or ) or the end
ParseAlternative(toks, i, terms) ==
    IF i > Len(toks) \/ toks[i] \in {"|", ")"}
    THEN [node |-> [type |-> "seq", kids |-> terms], next |-> i]
    ELSE LET atom == ParseAtom(toks, i)
         IN  ParseAlternative(toks, atom.next, Append(terms, atom.node))

ParseMore(toks, i, alts) ==
    LET alt == ParseAlternative(toks, i, <<>>)
    IN  IF alt.next <= Len(toks) /\ toks[alt.next] = "|"
        THEN ParseMore(toks, alt.next + 1, Append(alts, alt.node))
        ELSE [node |-> [type |-> "alt", kids |-> Append(alts, alt.node)], next |-> alt.next]

ParseDisjunction(toks, i) == ParseMore(toks, i, <<>>)

\* the tree of a whole pattern source
RegExpOf(toks) == ParseDisjunction(toks, 1).node

\* the text a named group captured, undefined (matching empty) when none
CapturedBy(name, caps) ==
    IF \E j \in 1..Len(caps) : caps[j][1] = name
    THEN caps[CHOOSE j \in 1..Len(caps) :
                 caps[j][1] = name /\ \A m \in (j + 1)..Len(caps) : caps[m][1] # name][2]
    ELSE <<>>

StartsAt(piece, s, pos) ==
    /\ pos + Len(piece) - 1 <= Len(s)
    /\ \A j \in 1..Len(piece) : s[pos + j - 1] = piece[j]

RECURSIVE Run(_, _, _)
RECURSIVE RunEach(_, _, _)
RECURSIVE RunSeq(_, _, _)
RECURSIVE RunAlt(_, _, _)
RECURSIVE RunStar(_, _, _)
RECURSIVE StarEach(_, _, _, _)

\* continue with node from each of the states, in order
RunEach(node, s, states) ==
    IF states = <<>> THEN <<>>
    ELSE Run(node, s, Head(states)) \o RunEach(node, s, Tail(states))

RunSeq(kids, s, states) ==
    IF kids = <<>> THEN states
    ELSE RunSeq(Tail(kids), s, RunEach(Head(kids), s, states))

RunAlt(kids, s, st) ==
    IF kids = <<>> THEN <<>>
    ELSE Run(Head(kids), s, st) \o RunAlt(Tail(kids), s, st)

\* greedy iteration: an iteration that consumed nothing is rejected
StarEach(kid, s, st, states) ==
    IF states = <<>> THEN <<>>
    ELSE (IF Head(states).pos > st.pos THEN RunStar(kid, s, Head(states)) ELSE <<>>)
         \o StarEach(kid, s, st, Tail(states))

RunStar(kid, s, st) == StarEach(kid, s, st, Run(kid, s, st)) \o <<st>>

Capturing(name, s, st, states) ==
    [j \in 1..Len(states) |->
        [pos |-> states[j].pos,
         caps |-> Append(states[j].caps, <<name, SubSeq(s, st.pos, states[j].pos - 1)>>)]]

Run(node, s, st) ==
    CASE node.type = "class" ->
            IF st.pos <= Len(s) /\ Matches(node.name, s[st.pos])
            THEN <<[st EXCEPT !.pos = st.pos + 1]>> ELSE <<>>
      [] node.type = "seq" -> RunSeq(node.kids, s, <<st>>)
      [] node.type = "alt" -> RunAlt(node.kids, s, st)
      [] node.type \in {"(?:", "("} -> Run(node.kid, s, st)
      [] node.type = "capture" -> Capturing(node.name, s, st, Run(node.kid, s, st))
      [] node.type = "(?=" ->
            LET ahead == Run(node.kid, s, st)
            IN  IF ahead = <<>> THEN <<>> ELSE <<[st EXCEPT !.caps = ahead[1].caps]>>
      [] node.type = "backref" ->
            LET piece == CapturedBy(node.name, st.caps)
            IN  IF StartsAt(piece, s, st.pos)
                THEN <<[st EXCEPT !.pos = st.pos + Len(piece)]>> ELSE <<>>
      [] node.type = "*" -> RunStar(node.kid, s, st)
      [] node.type = "+" -> RunEach([type |-> "*", kid |-> node.kid], s, Run(node.kid, s, st))
      [] node.type = "?" -> Run(node.kid, s, st) \o <<st>>
      [] node.type = "{2}" -> RunEach(node.kid, s, Run(node.kid, s, st))

\* RegExp.prototype.exec from lastIndex: the first position at or after it
\* where the pattern matches, as <<index, end>>, or <<>> for null
RECURSIVE ExecFrom(_, _, _)
ExecFrom(regexp, s, lastIndex) ==
    IF lastIndex > Len(s) + 1 THEN <<>>
    ELSE LET ends == Run(regexp, s, [pos |-> lastIndex, caps |-> <<>>])
         IN  IF ends # <<>> THEN <<lastIndex, ends[1].pos>>
             ELSE ExecFrom(regexp, s, lastIndex + 1)

\* the successive global matches over s, as by String.prototype.matchAll:
\* after an empty match lastIndex advances by one
RECURSIVE MatchAllFrom(_, _, _)
MatchAllFrom(regexp, s, lastIndex) ==
    LET m == ExecFrom(regexp, s, lastIndex)
    IN  IF m = <<>> THEN <<>>
        ELSE <<m>> \o MatchAllFrom(regexp, s, IF m[2] = m[1] THEN m[2] + 1 ELSE m[2])

MatchAll(toks, s) == MatchAllFrom(RegExpOf(toks), s, 1)

(***************************************************************************)
(* lib/search.js: getPattern.  new RegExp(text, 'gmsu') is given by the    *)
(* early errors of the pattern grammar with the flag u, over the sources   *)
(* the transformer makes of the characters a \ . ( ) * + ? | [ ] { } ^ $.  *)
(* The result is the reason of the SyntaxError, "" when the source         *)
(* compiles.                                                               *)
(***************************************************************************)
SyntaxCharacters == {"^", "$", "\\", ".", "*", "+", "?", "(", ")", "[", "]", "{", "}", "|"}

\* the position of the ] that closes the class opened before i, 0 when none
RECURSIVE ClassClose(_, _)
ClassClose(p, i) ==
    IF i > Len(p) THEN 0
    ELSE IF p[i] = "]" THEN i
    ELSE IF p[i] = "\\" THEN ClassClose(p, i + 2)
    ELSE ClassClose(p, i + 1)

\* atom tells what a quantifier at i would apply to: "none", an "atom", or
\* an atom already "quantified" (which a ? may still make lazy)
RECURSIVE CompileFrom(_, _, _, _)
CompileFrom(p, i, depth, atom) ==
    IF i > Len(p) THEN (IF depth > 0 THEN "Unterminated group" ELSE "")
    ELSE IF p[i] = "\\"
         THEN IF i = Len(p) THEN "\\ at end of pattern"
              ELSE IF p[i + 1] \in SyntaxCharacters \cup {"s"}
                   THEN CompileFrom(p, i + 2, depth, "atom")
              ELSE "Invalid escape"
    ELSE IF p[i] = "("
         THEN IF i + 1 <= Len(p) /\ p[i + 1] = "?"
              THEN IF i + 2 <= Len(p) /\ p[i + 2] = ":"
                   THEN CompileFrom(p, i + 3, depth + 1, "none")
                   ELSE "Invalid group"
              ELSE CompileFrom(p, i + 1, depth + 1, "none")
    ELSE IF p[i] = ")"
         THEN IF depth = 0 THEN "Unmatched ')'" ELSE CompileFrom(p, i + 1, depth - 1, "atom")
    ELSE IF p[i] \in {"*", "+"}
         THEN IF atom = "atom" THEN CompileFrom(p, i + 1, depth, "quantified")
              ELSE "Nothing to repeat"
    ELSE IF p[i] = "?"
         THEN IF atom = "atom" THEN CompileFrom(p, i + 1, depth, "quantified")
              ELSE IF atom = "quantified" THEN CompileFrom(p, i + 1, depth, "none")
              ELSE "Nothing to repeat"
    ELSE IF p[i] \in {"|", "^", "$"} THEN CompileFrom(p, i + 1, depth, "none")
    ELSE IF p[i] = "["
         THEN IF ClassClose(p, i + 1) = 0 THEN "Unterminated character class"
              ELSE CompileFrom(p, ClassClose(p, i + 1) + 1, depth, "atom")
    ELSE IF p[i] \in {"]", "{", "}"} THEN "Lone quantifier brackets"
    ELSE CompileFrom(p, i + 1, depth, "atom")

\* typeof target !== 'string'
Null == <<"null">>

\* regexTransformer.transform(text, target, detail): the extended dot is
\* substituted for a string target only
transformFor(text, target, detail) ==
    transform(text, [detail EXCEPT !.extendDot = detail.extendDot /\ target # Null])

\* every graphemeRegex(target) substituted for a dot holds the group gcr0
\* when q2pl is called for target
DuplicateGroupName(p, target) ==
    /\ target # Null
    /\ TestClass(gcPostcoreStr, target)
    /\ \E i, j \in 1..(Len(p) - Len(graphemeRegex) + 1) :
          /\ i < j
          /\ SubSeq(p, i, i + Len(graphemeRegex) - 1) = graphemeRegex
          /\ SubSeq(p, j, j + Len(graphemeRegex) - 1) = graphemeRegex

\* the reason new RegExp(p, 'gmsu') throws for, "" when it returns
CompileError(p, target) ==
    IF CompileFrom(p, 1, 0, "none") # "" THEN CompileFrom(p, 1, 0, "none")
    ELSE IF DuplicateGroupName(p, target) THEN "Duplicate capture group name"
    ELSE ""

\* the catch block: a message that ends in ": reason" (V8) is rethrown as a
\* new Error(reason); any other message leaves err as it was thrown
Rethrown(reason, colon) ==
    IF colon THEN [type |-> "Error", message |-> reason]
    ELSE [type |-> "SyntaxError", message |-> reason]

(***************************************************************************)
(* lib/history.js: ShellHistory.  histories is the sequence of the lines,  *)
(* index the 0-based position in it, value the text of the input element.  *)
(***************************************************************************)
\* text ?? getInput().value with text undefined
NoText == "undefined"

\* getHistory(): anything but a non-empty array becomes ['']
LoadedHistory(stored) == IF stored = <<>> THEN <<"">> ELSE stored

\* if (typeof index !== 'number' || index >= histories.length)
ResetIndex(histories, index) == IF index >= Len(histories) THEN Len(histories) - 1 ELSE index

\* the loop of back(): the index it ends at and the text of the input
RECURSIVE BackFrom(_, _, _)
BackFrom(histories, index, value) ==
    IF index > 0
    THEN IF value # histories[index]
         THEN [index |-> index - 1, value |-> histories[index]]
         ELSE BackFrom(histories, index - 1, value)
    ELSE [index |-> index, value |-> value]

\* back() stepping to the line before, whatever its text
backOneLine(histories, index, value) ==
    IF ResetIndex(histories, index) > 0
    THEN [index |-> ResetIndex(histories, index) - 1,
          value |-> histories[ResetIndex(histories, index)]]
    ELSE [index |-> ResetIndex(histories, index), value |-> value]

back(histories, index, value) == BackFrom(histories, ResetIndex(histories, index), value)

\* the loop of advance()
RECURSIVE AdvanceFrom(_, _, _)
AdvanceFrom(histories, index, value) ==
    IF index < Len(histories) - 1
    THEN IF value # histories[index + 2]
         THEN [index |-> index + 1, value |-> histories[index + 2]]
         ELSE AdvanceFrom(histories, index + 1, value)
    ELSE [index |-> index, value |-> value]

\* advance() incrementing index without the test against the last line
advanceUnbounded(histories, index, value) ==
    [index |-> ResetIndex(histories, index) + 1, value |-> value]

advance(histories, index, value) == AdvanceFrom(histories, ResetIndex(histories, index), value)

\* histories[histories.length - 1] = text ?? getInput().value
updateCurrentEntry(histories, text, value) ==
    [histories EXCEPT ![Len(histories)] = IF text = NoText THEN value ELSE text]

\* the for loop of addEntry: text is spliced out of all but the last line
RemoveEarlier(histories, text) ==
    SelectSeq(SubSeq(histories, 1, Len(histories) - 1), LAMBDA line : line # text)
    \o <<Last(histories)>>

\* histories.splice(0, histories.length - historyMax) when over historyMax
Truncated(histories, historyMax) ==
    IF Len(histories) > historyMax
    THEN SubSeq(histories, Len(histories) - historyMax + 1, Len(histories))
    ELSE histories

\* addEntry without the splice that keeps historyMax lines
addEntryKeepingAll(histories, historyMax, text, value) ==
    Append(RemoveEarlier(updateCurrentEntry(histories, NoText, value),
                         IF text = NoText THEN value ELSE text),
           IF text = NoText THEN value ELSE text)

\* the lines after addEntry(text)
addEntry(histories, historyMax, text, value) ==
    Truncated(Append(RemoveEarlier(updateCurrentEntry(histories, NoText, value),
                                   IF text = NoText THEN value ELSE text),
                     IF text = NoText THEN value ELSE text),
              historyMax)

(***************************************************************************)
(* lib/search.js: findPosition and execLoop                                *)
(***************************************************************************)
\* the while loop of findPosition; positions[i] is <<start offset>> and the
\* result is a 0-based index or -1
RECURSIVE FindPositionBetween(_, _, _, _, _)
FindPositionBetween(index, positions, exclusive, left, right) ==
    LET middle == (left + right) \div 2
        start == positions[middle + 1][1]
        isLast == middle = Len(positions) - 1
    IN  IF left > right THEN -1
        ELSE IF ~exclusive /\ ((isLast /\ start <= index)
                \/ (~isLast /\ start <= index /\ index < positions[middle + 2][1]))
             THEN middle
        ELSE IF exclusive /\ ((isLast /\ start < index)
                \/ (~isLast /\ start < index /\ index <= positions[middle + 2][1]))
             THEN middle
        ELSE IF start < index
             THEN FindPositionBetween(index, positions, exclusive, middle + 1, right)
        ELSE FindPositionBetween(index, positions, exclusive, left, middle - 1)

\* findPosition taking every call as not exclusive
findPositionInclusive(index, positions, exclusive) ==
    FindPositionBetween(index, positions, FALSE, 0, Len(positions) - 1)

findPosition(index, positions, exclusive) ==
    FindPositionBetween(index, positions, exclusive, 0, Len(positions) - 1)

\* pattern.exec(text) of a pattern with the flag g at lastIndex (0-based):
\* the match as [index, text], or null
null0 == [index |-> -1, text |-> <<>>]

exec(regexp, text, lastIndex) ==
    LET m == ExecFrom(regexp, text, lastIndex + 1)
    IN  IF m = <<>> THEN null0
        ELSE [index |-> m[1] - 1, text |-> SubSeq(text, m[1], m[2] - 1)]

\* re.graphemes.slice(0, limit).map(g => g.segment).join('')
FirstGraphemes(matched, limit) ==
    IF Len(Segment(matched)) > limit
    THEN Flatten(SubSeq(Segment(matched), 1, limit))
    ELSE matched

\* one turn of the loop of execLoop for the match re: what is yielded as
\* re[0] and what pattern.lastIndex is after it
ExecLoopTurn(re, lastIndex, limit) ==
    [yielded |-> FirstGraphemes(re.text, limit),
     lastIndex |-> IF Len(Segment(re.text)) > limit
                   THEN lastIndex + Len(FirstGraphemes(re.text, limit))
                   ELSE re.index + Len(re.text)]

(***************************************************************************)
(* lib/content.js, lib/panel.js and the searchInfoPool of lib/search.js.   *)
(* The state of the content script is a record c:                          *)
(*   poolPromise, poolSets  searchInfoPool[kind].promise and .info.sets,   *)
(*                          as the number of the scan (0 is undefined)     *)
(*   scans                  the calls of doSearchInfo, [kind, stage] each  *)
(*   promise, data          searchInfo.promise (the scan it was chained    *)
(*                          to) and searchInfo.data (the kind of the info  *)
(*                          object it refers to)                           *)
(*   opened, value          the panel is in the document; its input value  *)
(*   last, foundItems       lastCommitText and foundItems of the panel     *)
(*   running                the invocation of handleCommitText that is in  *)
(*                          runningListeners                               *)
(*   matched, stored        the last text a pattern was matched against    *)
(*                          and the last value stored as searchInfo.data   *)
(*   pending                the text of the last final commit for which no *)
(*                          found-item list was made yet                   *)
(* A pattern of the modes regex and literal is ready within the same task, *)
(* a migemo pattern after the background page answered.  getPattern is     *)
(* taken to succeed.                                                       *)
(***************************************************************************)
Kinds == {"unified", "strict"}

KindOf(strict) == IF strict THEN "strict" ELSE "unified"

NoFoundItems == "undefined"
NoData == "undefined"
NoValue == [text |-> "undefined", strict |-> FALSE, mode |-> "regex"]
NotRunning ==
    [pc |-> "idle", text |-> "", isFinal |-> FALSE, strict |-> FALSE, mode |-> "regex",
     si |-> NoData]

\* getSearchInfo(detail): a scan is started unless the pool holds a promise
getSearchInfo(c, strict) ==
    IF c.poolPromise[KindOf(strict)] = 0
    THEN [c EXCEPT !.scans = Append(@, [kind |-> KindOf(strict), stage |-> "body"]),
                   !.poolPromise[KindOf(strict)] = Len(c.scans) + 1]
    ELSE c

\* the found-item list of the running final commit is complete
ListMade(c) ==
    IF c.foundItems = NoFoundItems
    THEN [c EXCEPT !.running = NotRunning]
    ELSE [c EXCEPT !.foundItems = c.running.text,
                   !.matched = [strict |-> c.running.strict, kind |-> c.running.si],
                   !.pending = IF @ = c.running.text THEN "" ELSE @,
                   !.running = NotRunning]

\* handleCommitText after the first await search.getPattern
AfterPattern(c) ==
    IF c.running.isFinal
    THEN IF c.data = NoData THEN [c EXCEPT !.running = NotRunning]
         ELSE IF c.poolSets[c.data] = 0 THEN [c EXCEPT !.running = NotRunning]
         ELSE LET opened == [c EXCEPT !.foundItems = "[]", !.running.pc = "loop",
                                      !.running.si = c.data]
              IN  IF c.running.mode = "migemo" THEN opened ELSE ListMade(opened)
    ELSE IF c.data # NoData /\ c.poolSets[c.data] # 0
         THEN [c EXCEPT !.matched = [strict |-> c.running.strict, kind |-> c.data],
                        !.running = NotRunning]
    ELSE [c EXCEPT !.running = NotRunning]

\* handleCommitText(text, detail) up to its first await
handleCommitText(c, value, isFinal) ==
    LET scanned == IF c.promise # 0 THEN c
                   ELSE [getSearchInfo(c, value.strict) EXCEPT
                            !.promise = getSearchInfo(c, value.strict).poolPromise[KindOf(value.strict)]]
        awaiting == [scanned EXCEPT !.running =
                        [pc |-> "pattern", text |-> value.text, isFinal |-> isFinal,
                         strict |-> value.strict, mode |-> value.mode, si |-> NoData]]
    IN  IF value.text = "" THEN scanned
        ELSE IF isFinal /\ scanned.data # NoData /\ scanned.poolSets[scanned.data] = 0
             THEN scanned
        ELSE IF value.mode = "migemo" THEN awaiting
        ELSE AfterPattern(awaiting)

\* invokeListener(onCommitText, text, detail)
invokeListener(c, value, isFinal) ==
    IF c.running.pc # "idle" THEN c ELSE handleCommitText(c, value, isFinal)

commitPanelTextCore(c, value, isFinal) ==
    invokeListener(IF c.foundItems # NoFoundItems /\ ~isFinal
                   THEN [c EXCEPT !.foundItems = NoFoundItems] ELSE c,
                   value, isFinal)

\* commitPanelText(text, isFinal): the debounced call of a commit that is
\* not final is taken as made at once
commitPanelText(c, value, isFinal) ==
    IF isFinal
    THEN IF value = c.last /\ c.foundItems # NoFoundItems THEN c
         ELSE commitPanelTextCore([c EXCEPT !.last = value,
                                            !.pending = value.text], value, TRUE)
    ELSE commitPanelTextCore([c EXCEPT !.pending = ""], value, FALSE)

\* the callback content.js chains to the promise of getSearchInfo, with
\* panel.requestCommit() throwing when the panel is not in the document
SearchInfoResolved(c, id) ==
    IF c.promise = 0 THEN c
    ELSE LET kept == [c EXCEPT !.data = c.scans[id].kind,
                               !.stored = [scan |-> id, sets |-> c.poolSets[c.scans[id].kind]]]
         IN  IF c.opened THEN commitPanelTextCore(kept, c.value, FALSE) ELSE kept

\* doSearchInfo after await getSearchTarget(detail, document.body)
BodyScanned(c, id) ==
    IF c.poolPromise[c.scans[id].kind] # 0
    THEN [c EXCEPT !.poolSets[c.scans[id].kind] = id, !.scans[id].stage = "sub"]
    ELSE SearchInfoResolved([c EXCEPT !.scans[id].stage = "done"], id)

\* doSearchInfo after the targets under the sub search roots answered
SubScanned(c, id) == SearchInfoResolved([c EXCEPT !.scans[id].stage = "done"], id)

\* handleEscape: panel.close(searchInfo.data) and search.close()
handleEscape(c) ==
    [c EXCEPT !.foundItems = IF c.opened THEN NoFoundItems ELSE @,
              !.opened = FALSE,
              !.poolPromise = [k \in Kinds |-> 0],
              !.pending = ""]

handleMutation(c) ==
    IF ~c.opened THEN [c EXCEPT !.promise = 0, !.data = NoData] ELSE c

(***************************************************************************)
(* background.js: handleMigemoQuery.  migemo is undefined, null or the     *)
(* Migemo instance, given by whether its dict is set; a response is the    *)
(* query with the migemoQuery answered: null, or a pattern made with or    *)
(* without the dictionary.                                                 *)
(***************************************************************************)
MigemoUndefined == [is |-> "undefined", dict |-> FALSE]
MigemoNull == [is |-> "null", dict |-> FALSE]

\* new jsmigemo.Migemo and setRxop: this.dict = null
NewMigemo == [is |-> "Migemo", dict |-> FALSE]

\* migemo.setDict(new jsmigemo.CompactDictionary(buffer))
setDict(migemo) == [migemo EXCEPT !.dict = TRUE]

\* the end of handleMigemoQuery: migemo.query(query), or null
MigemoAnswer(migemo, query) ==
    IF migemo.is # "null"
    THEN [query |-> query, migemoQuery |-> "pattern", dict |-> migemo.dict]
    ELSE [query |-> query, migemoQuery |-> "null", dict |-> FALSE]

(***************************************************************************)
(* lib/content.js: the loop of handleCommitText over the matches of one    *)
(* set, with the found-item list of lib/panel.js.  A match is [index,      *)
(* length, graphemes]; a range carries the number of the match it was made *)
(* for and its target (an iframe element) if it has one.                   *)
(***************************************************************************)
MATCH_FRAGMENT_MAX_LENGTH == 200

NoTarget == "undefined"
NoRange == [for |-> 0, target |-> NoTarget]
NoMatch == [id |-> 0, index |-> 0, length |-> 0, graphemes |-> 0]

\* addFoundItem(range)
addFoundItem(foundItems, range) ==
    IF /\ foundItems # <<>>
       /\ range.target # NoTarget /\ foundItems[Len(foundItems)].target # NoTarget
       /\ range.target = foundItems[Len(foundItems)].target
    THEN foundItems
    ELSE Append(foundItems, range)

\* removeLastFoundItem(): foundItems.pop()
removeLastFoundItem(foundItems) ==
    IF foundItems = <<>> THEN <<>> ELSE SubSeq(foundItems, 1, Len(foundItems) - 1)

\* the condition under which a match of one grapheme is combined with the
\* match before it
Combined(lastMatch, re) ==
    /\ lastMatch # NoMatch
    /\ lastMatch.index + lastMatch.length = re.index
    /\ re.graphemes = 1
    /\ lastMatch.graphemes + re.graphemes <= MATCH_FRAGMENT_MAX_LENGTH

\* lastMatch and lastMatchLength after the match re
LastMatchAfter(lastMatch, re) ==
    IF Combined(lastMatch, re)
    THEN [lastMatch EXCEPT !.length = @ + re.length, !.graphemes = @ + re.graphemes]
    ELSE re

\* search.getFoundItemRange(re, si, i): the target of an iframe set, a range
\* of text nodes, or null for an invalid start or end
getFoundItemRange(re, type, valid) ==
    IF type = "iframe" THEN [for |-> re.id, target |-> "iframe"]
    ELSE IF valid THEN [for |-> re.id, target |-> NoTarget]
    ELSE NoRange

\* the found items after the body of the loop ran for the match re
FoundItemsAfter(foundItems, lastMatch, re, type, valid) ==
    LET kept == IF Combined(lastMatch, re) THEN removeLastFoundItem(foundItems)
                ELSE foundItems
        range == getFoundItemRange(LastMatchAfter(lastMatch, re), type, valid)
    IN  IF range = NoRange THEN kept ELSE addFoundItem(kept, range)

(***************************************************************************)
(* jsmigemo: Migemo.parseQuery.  The pattern                               *)
(*   /[^A-Z\s]+|[A-Z]{2,}|([A-Z][^A-Z\s]+)|([A-Z]\s*$)/g                   *)
(* is run over the query from lastIndex; A and B stand for the upper case  *)
(* letters, the space for the white space.                                 *)
(***************************************************************************)
IsUpper(c) == c \in {"A", "B"}
IsWhite(c) == c = " "
IsOther(c) == ~IsUpper(c) /\ ~IsWhite(c)

\* the last position of the run of characters of one kind that starts at i
RECURSIVE RunOf(_, _, _)
RunOf(Kind(_), query, i) ==
    IF i + 1 <= Len(query) /\ Kind(query[i + 1]) THEN RunOf(Kind, query, i + 1) ELSE i

\* the last position of the match that starts at i, 0 when no alternative
\* matches there
MatchEnd(query, i) ==
    IF IsOther(query[i]) THEN RunOf(IsOther, query, i)
    ELSE IF IsWhite(query[i]) THEN 0
    ELSE IF i + 1 <= Len(query) /\ IsUpper(query[i + 1]) THEN RunOf(IsUpper, query, i)
    ELSE IF i + 1 <= Len(query) /\ IsOther(query[i + 1]) THEN RunOf(IsOther, query, i + 1)
    ELSE IF RunOf(IsWhite, query, i) = Len(query) THEN Len(query)
    ELSE 0

\* the matches of re.exec(query) from position i on
RECURSIVE ParseFrom(_, _)
ParseFrom(query, i) ==
    IF i > Len(query) THEN <<>>
    ELSE IF MatchEnd(query, i) = 0 THEN ParseFrom(query, i + 1)
    ELSE <<SubSeq(query, i, MatchEnd(query, i))>> \o ParseFrom(query, MatchEnd(query, i) + 1)

\* [...migemo.parseQuery(query)]
parseQuery(query) == ParseFrom(query, 1)

(***************************************************************************)
(* jsmigemo: BitVector.rank as the code computes it, from the sb and lb    *)
(* arrays the constructor fills and the two words of the double word of    *)
(* pos.  bitCount(undefined) is 0: its first line makes it NaN and the     *)
(* next & makes that 0.                                                    *)
(***************************************************************************)
\* what rank returns in this model when its sum is NaN
NaN == -2

\* bitCount(this.words[w])
bitCount(bv, w) == Cardinality({p \in (32 * w)..(32 * w + 31) : get(bv, p)})

lbLength(bv) == (bv.sizeInBits + 511) \div 512
sbLength(bv) == lbLength(bv) * 8

\* bc of the constructor's loop at i
bc(bv, i) ==
    IF i < (Len(bv.words) \div 32) \div 2
    THEN bitCount(bv, i * 2) + bitCount(bv, i * 2 + 1)
    ELSE 0

RECURSIVE SumBc(_, _, _)
SumBc(bv, from, to) == IF from >= to THEN 0 ELSE bc(bv, from) + SumBc(bv, from + 1, to)

\* this.sb[i], an Uint16Array: the bits of the double words of i's block
\* of 8 below i
sb(bv, i) == SumBc(bv, 8 * (i \div 8), i) % 65536

\* this.lb[k], an Uint32Array, whose 32 bits a sum of at most sizeInBits
\* fits for every size the words can have: the bits below block k
lb(bv, k) == SumBc(bv, 0, 8 * k)

\* this.words[pos >>> 5] & mask: mask has the posInWord lowest bits
MaskedBits(bv, pos) == Cardinality({p \in (32 * (pos \div 32))..(pos - 1) : get(bv, p)})

rankBySums(bv, pos, b) ==
    IF pos < 0 /\ bv.sizeInBits <= pos THEN RangeError
    ELSE IF pos \div 64 >= sbLength(bv) \/ pos \div 512 >= lbLength(bv) THEN NaN
    ELSE LET count1 == sb(bv, pos \div 64) + lb(bv, pos \div 512)
                       + (IF pos % 64 >= 32 THEN bitCount(bv, 2 * (pos \div 64)) ELSE 0)
                       + MaskedBits(bv, pos)
         IN  IF b THEN count1 ELSE pos - count1

(***************************************************************************)
(* State of the checked calls                                              *)
(***************************************************************************)
VARIABLES
    pc,        \* the step each checked call is at: "call", then "done"
    source,    \* transform: the query text
    detail,    \* transform: [mode, strict, extendDot]
    result,    \* transform: the pattern source returned, or SyntaxError
    text,      \* unifyString: the string given to the first call
    unified,   \* unifyString(text)
    reunified, \* unifyString(unified)
    dict,      \* CompactDictionaryBuilder.build: the map of keys to value lists
    buffer,    \* the buffer build(dict) returned
    dictionary,\* new CompactDictionary(buffer)
    key,       \* the key given to search or predictiveSearch
    found,     \* the values the search yielded, in order
    processor1, \* RomajiProcessor1.build()
    processor2, \* RomajiProcessor2.build()
    romaji,    \* the string given to both romaji processors
    hiragana1, \* RomajiProcessor1.romajiToHiragana(romaji)
    hiragana2, \* RomajiProcessor2.romajiToHiragana(romaji)
    predictive1, \* RomajiProcessor1.romajiToHiraganaPredictively(romaji)
    predictive2, \* RomajiProcessor2.romajiToHiraganaPredictively(romaji)
    generator, \* the TernaryRegexGenerator the words are added to
    added,     \* the set of the words added so far
    pattern,   \* generate()
    gcArgs,    \* grapheme-regex.js: the function called and its argument
    gcSubject, \* the string the compiled pattern is matched over
    gcPattern, \* the pattern source the function returned
    gcMatches, \* the successive global matches over gcSubject, <<index, end>> each
    gpText,    \* getPattern: text
    gpTarget,  \* getPattern: target, a string or Null
    gpDetail,  \* getPattern: detail
    gpOutcome, \* getPattern: the RegExp returned or the error thrown
    historyMax, \* ShellHistory: config.historyMax
    histories, \* ShellHistory: the lines
    index,     \* ShellHistory: the index of the line shown
    input,     \* the value of the input element
    saved,     \* the lines last given to config.saveHistory
    called,    \* the last call made, with the lines, index and input before it
    fpIndex,   \* findPosition: index
    fpPositions, \* findPosition: positions
    fpExclusive, \* findPosition: exclusive
    fpResult,  \* findPosition: the index returned
    elPattern, \* execLoop: the source of pattern
    elText,    \* execLoop: text
    elLimit,   \* execLoop: limit
    elLastIndex, \* execLoop: pattern.lastIndex
    elYielded, \* execLoop: re[0] of the matches yielded so far
    elIndexes, \* execLoop: re.index of the matches yielded so far
    ctPoolPromise, \* searchInfoPool[kind].promise: the number of its scan, 0 for undefined
    ctPoolSets, \* searchInfoPool[kind].info.sets: the scan that made its body set
    ctScans,   \* the calls of doSearchInfo, [kind, stage] each
    ctPromise, \* content.js searchInfo.promise: the scan it is chained to
    ctData,    \* content.js searchInfo.data: the kind of the info object
    ctOpened,  \* panel.isOpened()
    ctValue,   \* the value of the text field of the panel
    ctLast,    \* panel.js lastCommitText
    ctFoundItems, \* panel.js foundItems: undefined, [] or the list for a text
    ctRunning, \* the invocation of handleCommitText in runningListeners
    ctMatched, \* the strictness of the last commit matched and the kind of its text
    ctStored,  \* the scan whose value was last stored as searchInfo.data, and its sets
    ctPending, \* the text of a final commit that has no found-item list yet
    bgMigemo, \* background.js: migemo
    bgLoading, \* the queries of the calls awaiting loadMigemoDict()
    bgResponses, \* the responses sent, in order
    fiType, \* the type of the set the matches are of
    fiFoundItems, \* panel.js foundItems
    fiLastMatch, \* handleCommitText: lastMatch with lastMatchLength
    fiMatched, \* the number of matches the loop ran for
    fiBefore, \* the found items and lastMatch before the last match
    fiRe, \* the last match the loop ran for
    pqQuery, \* Migemo.parseQuery: query
    pqWords, \* the sub-words parseQuery yielded, in order
    bvVector, \* BitVector.rank: the bit vector
    bvPos, \* the pos of the call
    bvB, \* the b of the call
    bvRank \* what the call returned

transformerVars == <<source, detail, result>>
unifierVars == <<text, unified, reunified>>
dictionaryVars == <<dict, buffer, dictionary, key, found>>
romajiVars == <<processor1, processor2, romaji, hiragana1, hiragana2, predictive1, predictive2>>
generatorVars == <<generator, added, pattern>>
graphemeVars == <<gcArgs, gcSubject, gcPattern, gcMatches>>
\* the components of src/lib checked after the generator
patternVars == <<gpText, gpTarget, gpDetail, gpOutcome>>
historyVars == <<historyMax, histories, index, input, saved, called>>
positionVars == <<fpIndex, fpPositions, fpExclusive, fpResult>>
execLoopVars == <<elPattern, elText, elLimit, elLastIndex, elYielded, elIndexes>>
contentVars ==
    <<ctPoolPromise, ctPoolSets, ctScans, ctPromise, ctData, ctOpened, ctValue, ctLast,
      ctFoundItems, ctRunning, ctMatched, ctStored, ctPending>>
backgroundVars == <<bgMigemo, bgLoading, bgResponses>>
foundVars == <<fiType, fiFoundItems, fiLastMatch, fiMatched, fiBefore, fiRe>>
parseVars == <<pqQuery, pqWords>>
rankVars == <<bvVector, bvPos, bvB, bvRank>>
\* the components of the extension checked after src/lib
appVars == <<contentVars, backgroundVars, foundVars, parseVars, rankVars>>
searchVars == <<positionVars, execLoopVars, appVars>>
libVars == <<graphemeVars, patternVars, historyVars, searchVars>>
migemoVars == <<dictionaryVars, romajiVars, generatorVars>>
belowAppVars ==
    <<transformerVars, unifierVars, migemoVars, graphemeVars, patternVars, historyVars,
      positionVars, execLoopVars>>
\* the components of the extension but the one a specification runs
aroundContentVars == <<belowAppVars, backgroundVars, foundVars, parseVars, rankVars>>
aroundBackgroundVars == <<belowAppVars, contentVars, foundVars, parseVars, rankVars>>
aroundFoundVars == <<belowAppVars, contentVars, backgroundVars, parseVars, rankVars>>
aroundParseVars == <<belowAppVars, contentVars, backgroundVars, foundVars, rankVars>>
aroundRankVars == <<belowAppVars, contentVars, backgroundVars, foundVars, parseVars>>
vars == <<pc, transformerVars, unifierVars, migemoVars, libVars>>

\* the components a specification does not exercise stay as constructed
TransformerIdle == source = <<>> /\ detail = <<>> /\ result = <<>>
UnifierIdle == text = <<>> /\ unified = <<>> /\ reunified = <<>>
DictionaryIdle ==
    dict = <<>> /\ buffer = <<>> /\ dictionary = <<>> /\ key = <<>> /\ found = <<>>
RomajiIdle ==
    /\ processor1 = <<>> /\ processor2 = <<>>
    /\ romaji = <<>> /\ hiragana1 = <<>> /\ hiragana2 = <<>>
    /\ predictive1 = <<>> /\ predictive2 = <<>>
GeneratorIdle == generator = <<>> /\ added = <<>> /\ pattern = <<>>
GraphemeIdle == gcArgs = <<>> /\ gcSubject = <<>> /\ gcPattern = <<>> /\ gcMatches = <<>>
PatternIdle == gpText = <<>> /\ gpTarget = <<>> /\ gpDetail = <<>> /\ gpOutcome = <<>>
HistoryIdle ==
    /\ historyMax = 0 /\ histories = <<>> /\ index = 0 /\ input = ""
    /\ saved = <<>> /\ called = <<>>
PositionIdle == fpIndex = 0 /\ fpPositions = <<>> /\ fpExclusive = FALSE /\ fpResult = 0
ExecLoopIdle ==
    /\ elPattern = <<>> /\ elText = <<>> /\ elLimit = 0 /\ elLastIndex = 0
    /\ elYielded = <<>> /\ elIndexes = <<>>
ContentIdle ==
    /\ ctPoolPromise = [k \in Kinds |-> 0]
    /\ ctPoolSets = [k \in Kinds |-> 0]
    /\ ctScans = <<>>
    /\ ctPromise = 0
    /\ ctData = NoData
    /\ ctOpened = FALSE
    /\ ctValue = NoValue
    /\ ctLast = NoValue
    /\ ctFoundItems = NoFoundItems
    /\ ctRunning = NotRunning
    /\ ctMatched = [strict |-> FALSE, kind |-> NoData]
    /\ ctStored = [scan |-> 0, sets |-> 0]
    /\ ctPending = ""
BackgroundIdle == bgMigemo = MigemoUndefined /\ bgLoading = <<>> /\ bgResponses = <<>>
FoundIdle ==
    /\ fiType = "" /\ fiFoundItems = <<>> /\ fiLastMatch = NoMatch /\ fiMatched = 0
    /\ fiBefore = <<>> /\ fiRe = NoMatch
ParseIdle == pqQuery = <<>> /\ pqWords = <<>>
RankIdle == bvVector = BitVector(<<>>, 0) /\ bvPos = 0 /\ bvB = FALSE /\ bvRank = 0
AppIdle == ContentIdle /\ BackgroundIdle /\ FoundIdle /\ ParseIdle /\ RankIdle
SearchIdle == PositionIdle /\ ExecLoopIdle /\ AppIdle

LibIdle == GraphemeIdle /\ PatternIdle /\ HistoryIdle /\ SearchIdle
MigemoIdle == DictionaryIdle /\ RomajiIdle /\ GeneratorIdle
BelowAppIdle ==
    /\ TransformerIdle /\ UnifierIdle /\ MigemoIdle /\ GraphemeIdle /\ PatternIdle
    /\ HistoryIdle /\ PositionIdle /\ ExecLoopIdle
\* every component idle but the one a specification runs
AroundContentIdle == BelowAppIdle /\ BackgroundIdle /\ FoundIdle /\ ParseIdle /\ RankIdle
AroundBackgroundIdle == BelowAppIdle /\ ContentIdle /\ FoundIdle /\ ParseIdle /\ RankIdle
AroundFoundIdle == BelowAppIdle /\ ContentIdle /\ BackgroundIdle /\ ParseIdle /\ RankIdle
AroundParseIdle == BelowAppIdle /\ ContentIdle /\ BackgroundIdle /\ FoundIdle /\ RankIdle
AroundRankIdle == BelowAppIdle /\ ContentIdle /\ BackgroundIdle /\ FoundIdle /\ ParseIdle

(***************************************************************************)
(* Specification of the Pattern Transformer: one call of transform() on    *)
(* every source of at most MaxSrcLen characters and every option set       *)
(***************************************************************************)
MaxSrcLen == 4
SrcChars == {"a", "E", " ", "\\", ".", "[", "]", "P", "p"}
Details == [mode : {"literal", "regex", "migemo"}, strict : BOOLEAN, extendDot : BOOLEAN]

Init ==
    /\ pc = "call"
    /\ source \in SeqsUpTo(SrcChars, MaxSrcLen)
    /\ detail \in Details
    /\ result = <<>>
    /\ UnifierIdle
    /\ DictionaryIdle
    /\ RomajiIdle
    /\ GeneratorIdle
    /\ LibIdle

Transform ==
    /\ pc = "call"
    /\ result' = transform(source, detail)
    /\ pc' = "done"
    /\ UNCHANGED <<source, detail, unifierVars, dictionaryVars, romajiVars, generatorVars, libVars>>

Next == Transform

Spec == Init /\ [][Next]_vars

(***************************************************************************)
(* Claims about the Pattern Transformer                                    *)
(***************************************************************************)
\* i is the second character of an escaped pair of r, pairs being read from
\* the left
RECURSIVE IsEscaped(_, _)
IsEscaped(r, i) == i > 1 /\ r[i - 1] = "\\" /\ ~IsEscaped(r, i - 1)

\* s ends with a backslash that is not itself escaped
EndsWithUnescapedBackslash(s) ==
    Len(s) >= 1 /\ s[Len(s)] = "\\" /\ ~IsEscaped(s, Len(s))

Done == pc = "done"
Threw == result = SyntaxError

\* C1: with strict set, transform emits every character of the source that
\* the Unifier would fold (here e-acute, folded to e) as that exact
\* character, in literal, regex and migemo mode alike.
StrictNeverUnifies ==
    (Done /\ detail.strict /\ ~Threw) =>
        /\ Count("E", result) = Count("E", source)
        /\ Count("e", result) = 0

\* C2: every source that ends with an unescaped backslash makes
\* transformLiteral and transformRegex throw instead of returning a pattern.
TrailingBackslashThrows ==
    (Done /\ EndsWithUnescapedBackslash(source)) => Threw

TrailingBackslashThrown ==
    /\ Done /\ Threw
    /\ detail.mode = "literal"
    /\ source = <<"a", "\\", "\\", "\\">>
    /\ EndsWithUnescapedBackslash(source)

\* the source cut at its escaped pairs: the pairs themselves and the
\* backslash-free stretches between them
RECURSIVE PairPieces(_, _, _)
PairPieces(s, i, cur) ==
    IF i > Len(s) THEN (IF cur = <<>> THEN <<>> ELSE <<cur>>)
    ELSE IF s[i] = "\\" /\ i + 1 <= Len(s)
         THEN (IF cur = <<>> THEN <<>> ELSE <<cur>>)
              \o <<SubSeq(s, i, i + 1)>> \o PairPieces(s, i + 2, <<>>)
    ELSE PairPieces(s, i + 1, Append(cur, s[i]))

PairsPassedThrough(s, d) ==
    LET ps == PairPieces(s, 1, <<>>)
    IN  Flatten([k \in 1..Len(ps) |->
            IF ps[k][1] = "\\" THEN ps[k] ELSE transform(ps[k], d)])

\* C3: every escaped pair of the source reaches the output unchanged,
\* wherever it occurs: the output is the escaped pairs, as they are, between
\* the transforms of the stretches that separate them (stated for sources
\* without brackets, whose stretches are whole tokens).
EscapedPairsUnchanged ==
    (Done /\ ~EndsWithUnescapedBackslash(source)
          /\ Count("[", source) = 0 /\ Count("]", source) = 0) =>
        result = PairsPassedThrough(source, detail)

\* the number of occurrences of m in r that are escaped by a backslash
EscapedCount(m, r) == Cardinality({i \in 1..Len(r) : r[i] = m /\ IsEscaped(r, i)})

\* C4: transformLiteral emits every metacharacter of the source preceded by
\* a backslash, so that none is lost and none is left bare in the output.
LiteralEscapesEveryMeta ==
    (Done /\ detail.mode = "literal" /\ ~Threw) =>
        \A m \in {".", "[", "]"} :
            /\ EscapedCount(m, result) >= Count(m, source)
            /\ EscapedCount(m, result) = Count(m, result)

\* a source that is one plain run: no metacharacter and no backslash
IsPlainRun(s) == s # <<>> /\ \A i \in 1..Len(s) : s[i] \notin META_MAP \cup {"\\"}

\* the number of maximal whitespace runs of s
SpaceRuns(s) ==
    Cardinality({i \in 1..Len(s) : IsSpace(s[i]) /\ (i = 1 \/ ~IsSpace(s[i - 1]))})

\* the number of occurrences of \s+ in r
FoldedRuns(r) ==
    Cardinality({i \in 1..(Len(r) - 2) : r[i] = "\\" /\ r[i + 1] = "s" /\ r[i + 2] = "+"})

PlainRunNormalized ==
    /\ Count("P", result) = 0
    /\ EscapedCount(".", result) = Count("P", source)
    /\ Count(" ", result) = 0
    /\ FoldedRuns(result) = SpaceRuns(source)

\* C5 as stated: transformRegex normalizes full-width punctuation and folds
\* whitespace runs to \s+ in every plain run, whether or not strict is set.
PlainRunNormalizedAlways ==
    (Done /\ detail.mode = "regex" /\ IsPlainRun(source)) => PlainRunNormalized

\* C5 as the code has it: without strict the plain run is normalized, folded
\* and unified; with strict it is emitted exactly as written.
PlainRunNormalizedUnlessStrict ==
    (Done /\ detail.mode = "regex" /\ IsPlainRun(source)) =>
        IF detail.strict THEN result = source
        ELSE PlainRunNormalized /\ Count("E", result) = 0

PlainRunBothWays ==
    /\ Done /\ detail.mode = "regex" /\ detail.strict
    /\ source = <<"a", " ", " ", "P">>
    /\ result = source

(***************************************************************************)
(* Specification of the Unifier: unifyString() called on every text of at  *)
(* most MaxTextLen characters of the UCD slice, then on its own result     *)
(***************************************************************************)
MaxTextLen == 2
TextChars == {"a", "e", "1", " ", "E", "'", "K", "G", "v", "O", "D", "u", "p",
              "H", "L", "V", "w", "x", "z", "R", "n", "P", "-"}

InitUnifier ==
    /\ pc = "call"
    /\ text \in SeqsUpTo(TextChars, MaxTextLen)
    /\ unified = <<>>
    /\ reunified = <<>>
    /\ TransformerIdle
    /\ DictionaryIdle
    /\ RomajiIdle
    /\ GeneratorIdle
    /\ LibIdle

Unify ==
    /\ pc = "call"
    /\ unified' = unifyString(text)
    /\ pc' = "unified"
    /\ UNCHANGED <<text, reunified, transformerVars, dictionaryVars, romajiVars, generatorVars, libVars>>

UnifyAgain ==
    /\ pc = "unified"
    /\ reunified' = unifyString(unified)
    /\ pc' = "done"
    /\ UNCHANGED <<text, unified, transformerVars, dictionaryVars, romajiVars, generatorVars, libVars>>

NextUnifier == Unify \/ UnifyAgain

SpecUnifier == InitUnifier /\ [][NextUnifier]_vars

(***************************************************************************)
(* Claims about the Unifier                                                *)
(***************************************************************************)
\* C6: unifyString is idempotent: unifying an already unified string returns
\* that string unchanged.
UnifyIdempotent == Done => reunified = unified

MaxValues == 20
DictKeys == {<<97>>, <<12354>>, <<97, 12354>>, <<12354, 97>>, <<12450>>, <<0>>}
SearchKeys == SeqsUpTo({97, 12354}, 2) \cup {<<12450>>}

\* Value(i) is a surface form: a kanji, or the kanji before it followed by
\* a second one
DictOf(keys, n) ==
    LET Value(i) == IF i % 2 = 1 THEN <<19968 + i>> ELSE <<19968 + i - 1, 19968 + i>>
    IN  [k \in keys |-> [i \in 1..n |-> Value(Len(k) + i)]]

InitDictionary ==
    /\ pc = "call"
    /\ dict \in {DictOf(keys, n) : keys \in SUBSET DictKeys, n \in 0..MaxValues}
    /\ buffer = <<>>
    /\ dictionary = <<>>
    /\ key = <<>>
    /\ found = <<>>
    /\ TransformerIdle
    /\ UnifierIdle
    /\ RomajiIdle
    /\ GeneratorIdle
    /\ LibIdle

Build ==
    /\ pc = "call"
    /\ buffer' = CompactDictionaryBuilder(dict)
    /\ pc' = "built"
    /\ UNCHANGED <<dict, dictionary, key, found, transformerVars, unifierVars, romajiVars, generatorVars, libVars>>

\* decode throws a RangeError on a byte that stands for no character
Load ==
    /\ pc = "built"
    /\ dictionary' = CompactDictionary(buffer)
    /\ pc' = IF \E i \in 1..Len(buffer.keyTrieEdges) : decode(buffer.keyTrieEdges[i]) = RangeError
             THEN "threw" ELSE "loaded"
    /\ UNCHANGED <<dict, buffer, key, found, transformerVars, unifierVars, romajiVars, generatorVars, libVars>>

Search ==
    /\ pc = "loaded"
    /\ \E k \in SearchKeys :
        /\ key' = k
        /\ found' = search(dictionary, k)
    /\ pc' = "searched"
    /\ UNCHANGED <<dict, buffer, dictionary, transformerVars, unifierVars, romajiVars, generatorVars, libVars>>

PredictiveSearch ==
    /\ pc = "loaded"
    /\ \E k \in SearchKeys :
        /\ key' = k
        /\ found' = predictiveSearch(dictionary, k)
    /\ pc' = "predicted"
    /\ UNCHANGED <<dict, buffer, dictionary, transformerVars, unifierVars, romajiVars, generatorVars, libVars>>

NextDictionary == Build \/ Load \/ Search \/ PredictiveSearch

SpecDictionary == InitDictionary /\ [][NextDictionary]_vars

(***************************************************************************)
(* Claims about the Migemo dictionary                                      *)
(***************************************************************************)
ValueSet(values) == {values[i] : i \in 1..Len(values)}
IsPrefix(a, b) == Len(a) <= Len(b) /\ SubSeq(b, 1, Len(a)) = a

\* C7: after build and load, search(k) for a key k of the map returns
\* exactly the set of values the map holds for k (stated for the keys that
\* can be encoded, which are the keys build keeps).
SearchReturnsValues ==
    (pc = "searched" /\ key \in Encodable(dict)) => ValueSet(found) = ValueSet(dict[key])

\* C8: predictiveSearch(key) yields the values of every entry whose key has
\* key as a prefix and of no other entry (stated for the keys of one
\* character and more).
PredictiveSearchReturnsPrefixed ==
    (pc = "predicted" /\ key # <<>>) =>
        ValueSet(found) = UNION {ValueSet(dict[k]) : k \in {e \in Encodable(dict) : IsPrefix(key, e)}}

\* the compact-hiragana alphabet: ASCII 0x20-0x7E, U+3041-U+3096 and U+30FC
InAlphabet(k) ==
    \A i \in 1..Len(k) : k[i] \in (32..126) \cup (12353..12438) \cup {12540}

WithoutOtherKeys(d) == [k \in {e \in DOMAIN d : InAlphabet(e)} |-> d[k]]

\* C15: build of a map with keys that hold a code point outside the
\* compact-hiragana alphabet does not throw and excludes exactly the entries
\* of those keys: the buffer is the one built from the map without them, and
\* it loads as a CompactDictionary.
BuildExcludesOtherKeys ==
    /\ pc = "built" =>
          /\ \A i \in 1..Len(buffer.keyTrieEdges) : buffer.keyTrieEdges[i] # RangeError
          /\ buffer = CompactDictionaryBuilder(WithoutOtherKeys(dict))
    /\ pc # "threw"

(***************************************************************************)
(* Specification of the romaji processors: both processors, as build()     *)
(* makes them, convert the same string of at most MaxRomajiLen letters,    *)
(* exactly and predictively                                                *)
(***************************************************************************)
MaxRomajiLen == 3
\* a, k, n, t, w, x, y
RomajiChars == {97, 107, 110, 116, 119, 120, 121}

InitRomaji ==
    /\ pc = "call"
    /\ processor1 = RomajiProcessor1(ROMAN_ENTRIES)
    /\ processor2 = RomajiProcessor2(base, check, hiraganaList, remainList)
    /\ romaji \in SeqsUpTo(RomajiChars, MaxRomajiLen)
    /\ hiragana1 = <<>>
    /\ hiragana2 = <<>>
    /\ predictive1 = <<>>
    /\ predictive2 = <<>>
    /\ TransformerIdle
    /\ UnifierIdle
    /\ DictionaryIdle
    /\ GeneratorIdle
    /\ LibIdle

Hiragana1 ==
    /\ pc = "call"
    /\ hiragana1' = RomajiProcessor1romajiToHiragana(processor1, romaji)
    /\ pc' = "converted1"
    /\ UNCHANGED <<processor1, processor2, romaji, hiragana2, predictive1, predictive2,
                   transformerVars, unifierVars, dictionaryVars, generatorVars, libVars>>

Hiragana2 ==
    /\ pc = "converted1"
    /\ hiragana2' = RomajiProcessor2romajiToHiragana(processor2, romaji)
    /\ pc' = "converted2"
    /\ UNCHANGED <<processor1, processor2, romaji, hiragana1, predictive1, predictive2,
                   transformerVars, unifierVars, dictionaryVars, generatorVars, libVars>>

Predictively1 ==
    /\ pc = "converted2"
    /\ predictive1' = RomajiProcessor1romajiToHiraganaPredictively(processor1, romaji)
    /\ pc' = "predicted1"
    /\ UNCHANGED <<processor1, processor2, romaji, hiragana1, hiragana2, predictive2,
                   transformerVars, unifierVars, dictionaryVars, generatorVars, libVars>>

Predictively2 ==
    /\ pc = "predicted1"
    /\ predictive2' = RomajiProcessor2romajiToHiraganaPredictively(processor2, romaji)
    /\ pc' = "done"
    /\ UNCHANGED <<processor1, processor2, romaji, hiragana1, hiragana2, predictive1,
                   transformerVars, unifierVars, dictionaryVars, generatorVars, libVars>>

NextRomaji == Hiragana1 \/ Hiragana2 \/ Predictively1 \/ Predictively2

SpecRomaji == InitRomaji /\ [][NextRomaji]_vars

(***************************************************************************)
(* Claims about the romaji processors                                      *)
(***************************************************************************)
\* C9: RomajiProcessor1 and RomajiProcessor2 are functionally equivalent: for
\* every romaji string, romajiToHiragana returns the same string from both,
\* and romajiToHiraganaPredictively returns the same prefix and the same set
\* of completions from both.
ProcessorsEquivalent ==
    Done => /\ hiragana1 = hiragana2
            /\ predictive1.prefix = predictive2.prefix
            /\ predictive1.suffixes = predictive2.suffixes

(***************************************************************************)
(* Specification of the regex generator: at most MaxWords of the words of  *)
(* Words are added to a new generator, in any order and any number of      *)
(* times, and generate() is called.  The words are a, b, ab, ba, bb, abb,  *)
(* the metacharacters . and ], the words a. and .a, and hiragana a         *)
(***************************************************************************)
MaxWords == 3
Words == {<<97>>, <<98>>, <<97, 98>>, <<98, 97>>, <<98, 98>>, <<97, 98, 98>>,
          <<46>>, <<93>>, <<97, 46>>, <<46, 97>>, <<12354>>}

InitGenerator ==
    /\ pc = "adding"
    /\ generator = getDEFAULT
    /\ added = {}
    /\ pattern = <<>>
    /\ TransformerIdle
    /\ UnifierIdle
    /\ DictionaryIdle
    /\ RomajiIdle
    /\ LibIdle

Add ==
    /\ pc = "adding"
    /\ \E word \in Words :
        /\ Cardinality(added \cup {word}) <= MaxWords
        /\ generator' = GeneratorAdd(generator, word)
        /\ added' = added \cup {word}
    /\ UNCHANGED <<pc, pattern, transformerVars, unifierVars, dictionaryVars, romajiVars, libVars>>

Generate ==
    /\ pc = "adding"
    /\ added # {}
    /\ pattern' = generate(generator)
    /\ pc' = "generated"
    /\ UNCHANGED <<generator, added, transformerVars, unifierVars, dictionaryVars, romajiVars, libVars>>

NextGenerator == Add \/ Generate

SpecGenerator == InitGenerator /\ [][NextGenerator]_vars

(***************************************************************************)
(* Claims about the regex generator.  Language(p) is the set of the        *)
(* strings a JavaScript RegExp of source p matches in full, for the        *)
(* patterns made of characters, identity escapes, the dot, classes without *)
(* ranges, groups and alternatives.                                        *)
(***************************************************************************)
\* the characters a dot is tried on: those of the words, and x
AnyChar == {46, 93, 97, 98, 120, 12354}

RECURSIVE LanguageOfClass(_, _, _)
LanguageOfClass(p, i, chars) ==
    IF p[i] = 93 THEN [lang |-> {<<c>> : c \in chars}, next |-> i + 1]
    ELSE IF p[i] = 92 THEN LanguageOfClass(p, i + 2, chars \cup {p[i + 1]})
    ELSE LanguageOfClass(p, i + 1, chars \cup {p[i]})

RECURSIVE LanguageOfAlternatives(_, _)
Grouped(g) == [lang |-> g.lang, next |-> g.next + 1]

LanguageOfAtom(p, i) ==
    IF p[i] = 40 THEN Grouped(LanguageOfAlternatives(p, i + 1))
    ELSE IF p[i] = 91 THEN LanguageOfClass(p, i + 1, {})
    ELSE IF p[i] = 92 THEN [lang |-> {<<p[i + 1]>>}, next |-> i + 2]
    ELSE IF p[i] = 46 THEN [lang |-> {<<c>> : c \in AnyChar}, next |-> i + 1]
    ELSE [lang |-> {<<p[i]>>}, next |-> i + 1]

RECURSIVE LanguageOfSequence(_, _)
Followed(a, rest) ==
    [lang |-> {x \o y : x \in a.lang, y \in rest.lang}, next |-> rest.next]

Continued(p, a) == Followed(a, LanguageOfSequence(p, a.next))

LanguageOfSequence(p, i) ==
    IF i > Len(p) \/ p[i] \in {124, 41} THEN [lang |-> {<<>>}, next |-> i]
    ELSE Continued(p, LanguageOfAtom(p, i))

Either(a, rest) == [lang |-> a.lang \cup rest.lang, next |-> rest.next]

Alternatives(p, a) ==
    IF a.next <= Len(p) /\ p[a.next] = 124
    THEN Either(a, LanguageOfAlternatives(p, a.next + 1))
    ELSE a

LanguageOfAlternatives(p, i) == Alternatives(p, LanguageOfSequence(p, i))

Language(p) == LanguageOfAlternatives(p, 1).lang

\* the added words that have no other added word as a proper prefix
Shortest(ws) == {w \in ws : \A v \in ws : ~(Len(v) < Len(w) /\ IsPrefix(v, w))}

\* C10: whatever words were added, in whatever order, the pattern generate()
\* returns matches every added word from its first character, and the set of
\* the strings it matches in full is exactly the set of the added words that
\* have no other added word as a proper prefix.
GeneratedMatchesShortest ==
    pc = "generated" =>
        /\ Language(pattern) = Shortest(added)
        /\ \A w \in added : \E n \in 1..Len(w) : SubSeq(w, 1, n) \in Language(pattern)

\* a, ab and . were added: ab is matched through a, and the pattern is [\.a]
GeneratedForPrefixedWord ==
    /\ pc = "generated"
    /\ added = {<<97>>, <<97, 98>>, <<46>>}
    /\ pattern = <<91, 92, 46, 97, 93>>
    /\ Language(pattern) = {<<97>>, <<46>>}


(***************************************************************************)
(* lib/grapheme-regex.js: graphemeRegex(target), graphemeRegex() and       *)
(* coreExtractRegex(group) are called, and the pattern graphemeRegex       *)
(* returned is compiled with the flags 'ug' and matched over a subject: a  *)
(* substring of the sample for a pruned pattern, any string otherwise.     *)
(***************************************************************************)
MaxSampleLen == 2
MaxSubjectLen == 3

SampleChars == {"a", "v", "p", "n", "r", "c", "R", "w", "z", "k", "l", "L", "V"}

\* samples in which a cluster of three characters needs a pruned branch
LongSamples ==
    {<<"k", "l", "k">>, <<"a", "p", "p">>, <<"w", "z", "w">>, <<"R", "R", "R">>,
     <<"L", "V", "V">>, <<"r", "n", "v">>, <<"w", "v", "z", "x">>}

Substrings(s) == {SubSeq(s, i, j) : i \in 1..(Len(s) + 1), j \in 0..Len(s)}

GraphemeCalls ==
    {[fn |-> "graphemeRegex", target |-> t] :
        t \in {Undefined} \cup SeqsUpTo(SampleChars, MaxSampleLen) \cup LongSamples}
    \cup {[fn |-> "coreExtractRegex", group |-> g] : g \in BOOLEAN}

SubjectsOf(args) ==
    IF args.fn = "coreExtractRegex" THEN {<<>>}
    ELSE IF args.target = Undefined THEN SeqsUpTo(SampleChars, MaxSubjectLen)
    ELSE Substrings(args.target)

InitGrapheme ==
    /\ pc = "call"
    /\ gcArgs \in GraphemeCalls
    /\ gcSubject \in SubjectsOf(gcArgs)
    /\ gcPattern = <<>>
    /\ gcMatches = <<>>
    /\ TransformerIdle
    /\ UnifierIdle
    /\ MigemoIdle
    /\ PatternIdle
    /\ HistoryIdle
    /\ SearchIdle

GraphemeRegex ==
    /\ pc = "call"
    /\ gcArgs.fn = "graphemeRegex"
    /\ gcPattern' = graphemePattern(gcArgs.target)
    /\ pc' = "compiled"
    /\ UNCHANGED <<gcArgs, gcSubject, gcMatches, transformerVars, unifierVars, migemoVars, patternVars, historyVars, searchVars>>

CoreExtractRegex ==
    /\ pc = "call"
    /\ gcArgs.fn = "coreExtractRegex"
    /\ gcPattern' = coreExtractPattern(gcArgs.group)
    /\ pc' = "extracted"
    /\ UNCHANGED <<gcArgs, gcSubject, gcMatches, transformerVars, unifierVars, migemoVars, patternVars, historyVars, searchVars>>

\* new RegExp(gcPattern, 'ug') and the successive matches over the subject
GraphemeMatchAll ==
    /\ pc = "compiled"
    /\ gcMatches' = MatchAll(gcPattern, gcSubject)
    /\ pc' = "matched"
    /\ UNCHANGED <<gcArgs, gcSubject, gcPattern, transformerVars, unifierVars, migemoVars, patternVars, historyVars, searchVars>>

NextGrapheme == GraphemeRegex \/ CoreExtractRegex \/ GraphemeMatchAll

SpecGrapheme == InitGrapheme /\ [][NextGrapheme]_vars

MatchedTexts(m, s) == [j \in 1..Len(m) |-> SubSeq(s, m[j][1], m[j][2] - 1)]

\* C11: the successive global matches of the grapheme-cluster pattern over a
\* string s start at the beginning of s, each starts where the one before it
\* ended, the last ends at the end of s, and their concatenation equals s.
MatchesPartitionSubject ==
    pc = "matched" =>
        /\ gcSubject # <<>> => gcMatches # <<>>
        /\ gcMatches # <<>> =>
              gcMatches[1][1] = 1 /\ Last(gcMatches)[2] = Len(gcSubject) + 1
        /\ \A j \in 1..Len(gcMatches) : gcMatches[j][1] <= gcMatches[j][2]
        /\ \A j \in 1..(Len(gcMatches) - 1) : gcMatches[j + 1][1] = gcMatches[j][2]
        /\ Flatten(MatchedTexts(gcMatches, gcSubject)) = gcSubject

\* the unpruned pattern went back into a run of precore characters to find
\* the core of the second of two clusters
BacktrackedIntoPrecore ==
    /\ pc = "matched"
    /\ gcArgs.target = Undefined
    /\ gcSubject = <<"a", "p", "p">>
    /\ gcMatches = << <<1, 2>>, <<2, 4>> >>

\* C12: the pattern pruned for a sample t yields over t and over every
\* substring of t exactly the matches the unpruned pattern yields.
PrunedMatchesAsUnpruned ==
    pc = "matched" /\ gcArgs.target # Undefined =>
        gcMatches = MatchAll(graphemePattern(Undefined), gcSubject)

\* the postcore class at i is quantified inside (?=(?<g> ... ))\k<g>
InLookaheadForm(src, i) ==
    /\ i > 4
    /\ i + 6 <= Len(src)
    /\ SubSeq(src, i - 4, i - 1) = <<"(?=", "(?<", src[i - 2], ">">>
    /\ SubSeq(src, i + 2, i + 6) = <<")", ")", "\\k<", src[i - 2], ">">>

\* C13: in every pattern source generated, by graphemeRegex with or without
\* a sample and by coreExtractRegex, a quantifier on the postcore class
\* stands in the form (?=(?<g>X*))\k<g>, never as a plain greedy X*.
PostcoreQuantifierInLookahead ==
    pc # "call" =>
        \A i \in 1..(Len(gcPattern) - 1) :
            gcPattern[i] = "Postcore" /\ gcPattern[i + 1] \in {"*", "+"}
                => InLookaheadForm(gcPattern, i)


(***************************************************************************)
(* lib/search.js getPattern(text, target, detail): the Migemo query is     *)
(* answered by the background page or fails, the text is transformed, and  *)
(* the pattern source is compiled; the message of the SyntaxError of the   *)
(* engine ends in ": reason" or does not.                                  *)
(***************************************************************************)
MaxQueryLen == 3

QueryChars == {"a", "\\", ".", "(", "*"}

\* response.migemoQuery
MigemoQueries == {<<"a">>, <<"(", "a", "|", "E", ")">>, <<"(", "a">>, <<".", ".">>}

InitPattern ==
    /\ pc = "call"
    /\ gpText \in SeqsUpTo(QueryChars, MaxQueryLen)
    /\ gpTarget \in {Null, <<"a">>, <<"a", "v">>}
    /\ gpDetail \in Details
    /\ gpOutcome = <<>>
    /\ TransformerIdle
    /\ UnifierIdle
    /\ MigemoIdle
    /\ GraphemeIdle
    /\ HistoryIdle
    /\ SearchIdle

\* chrome.runtime.sendMessage({type: 'migemoQuery', query: text})
MigemoQuery ==
    /\ pc = "call"
    /\ gpDetail.mode = "migemo" /\ gpText # <<>>
    /\ \/ /\ gpOutcome' = [type |-> "Error", message |-> "Failed to convert Migemo expression"]
          /\ pc' = "thrown"
          /\ UNCHANGED gpText
       \/ /\ gpText' \in MigemoQueries
          /\ pc' = "converted"
          /\ UNCHANGED gpOutcome
    /\ UNCHANGED <<gpTarget, gpDetail, transformerVars, unifierVars, migemoVars, graphemeVars, historyVars, searchVars>>

TransformText ==
    /\ \/ pc = "converted"
       \/ pc = "call" /\ ~(gpDetail.mode = "migemo" /\ gpText # <<>>)
    /\ IF transformFor(gpText, gpTarget, gpDetail) = SyntaxError
       THEN /\ gpOutcome' = [type |-> "SyntaxError", message |-> "A backslash must not be end"]
            /\ pc' = "thrown"
            /\ UNCHANGED gpText
       ELSE /\ gpText' = transformFor(gpText, gpTarget, gpDetail)
            /\ pc' = "transformed"
            /\ UNCHANGED gpOutcome
    /\ UNCHANGED <<gpTarget, gpDetail, transformerVars, unifierVars, migemoVars, graphemeVars, historyVars, searchVars>>

\* new RegExp(text, 'gmsu' + (detail.strict ? '' : 'i')) and the catch block
Compile ==
    /\ pc = "transformed"
    /\ IF CompileError(gpText, gpTarget) = ""
       THEN gpOutcome' = [type |-> "RegExp", message |-> ""] /\ pc' = "returned"
       ELSE /\ \E colon \in BOOLEAN :
                 gpOutcome' = Rethrown(CompileError(gpText, gpTarget), colon)
            /\ pc' = "thrown"
    /\ UNCHANGED <<gpText, gpTarget, gpDetail, transformerVars, unifierVars, migemoVars, graphemeVars, historyVars, searchVars>>

NextPattern == MigemoQuery \/ TransformText \/ Compile

SpecPattern == InitPattern /\ [][NextPattern]_vars

\* C16: every pattern failure that reaches the caller of getPattern is
\* delivered as an error of one and the same type, the type getPattern
\* throws for a failed Migemo conversion, with a message, and getPattern
\* returns a RegExp only when nothing failed.
PatternErrorsOfOneType ==
    /\ pc = "thrown" => gpOutcome.type = "Error" /\ gpOutcome.message # ""
    /\ pc = "returned" => gpOutcome.type = "RegExp" /\ CompileError(gpText, gpTarget) = ""

\* the pattern source with graphemeRegex(target) written out at every place
\* the transformer put it
RECURSIVE WithGraphemes(_, _)
WithGraphemes(p, target) ==
    IF p = <<>> THEN <<>>
    ELSE IF Len(p) >= Len(graphemeRegex) /\ SubSeq(p, 1, Len(graphemeRegex)) = graphemeRegex
         THEN graphemePattern(target)
              \o WithGraphemes(SubSeq(p, Len(graphemeRegex) + 1, Len(p)), target)
    ELSE <<p[1]>> \o WithGraphemes(Tail(p), target)

\* the names of the named groups of a pattern source, in order
GroupNames(toks) ==
    LET at == SelectSeq([i \in 1..(Len(toks) - 1) |-> i], LAMBDA i : toks[i] = "(?<")
    IN  [k \in 1..Len(at) |-> toks[at[k] + 1]]

\* C21: the pattern transform produces with extendDot for a sample text holds
\* no group name twice: the names gcr0, gcr1, ... synthesized within one
\* generated pattern are pairwise distinct, so the pattern compiles.
GroupNamesDistinct ==
    pc = "transformed" /\ gpTarget # Null /\ gpDetail.extendDot =>
        /\ \A i, j \in 1..Len(GroupNames(WithGraphemes(gpText, gpTarget))) :
              i # j => GroupNames(WithGraphemes(gpText, gpTarget))[i]
                       # GroupNames(WithGraphemes(gpText, gpTarget))[j]
        /\ ~DuplicateGroupName(gpText, gpTarget)


(***************************************************************************)
(* lib/history.js: a ShellHistory after applyConfig, with the input typed  *)
(* into and back, advance, updateCurrentEntry and addEntry called one      *)
(* after the other.                                                        *)
(***************************************************************************)
MaxHistory == 3
MaxStored == 3

HistoryTexts == {"", "foo", "bar"}

\* applyConfig(config): getHistory() and setInput of the last line
InitHistory ==
    /\ pc = "ready"
    /\ historyMax \in 1..MaxHistory
    /\ \E stored \in SeqsUpTo(HistoryTexts, MaxStored) :
          /\ histories = LoadedHistory(stored)
          /\ index = Len(LoadedHistory(stored)) - 1
          /\ input = Last(LoadedHistory(stored))
    /\ saved = <<>>
    /\ called = <<>>
    /\ TransformerIdle
    /\ UnifierIdle
    /\ MigemoIdle
    /\ GraphemeIdle
    /\ PatternIdle
    /\ SearchIdle

Called(name, given) ==
    [name |-> name, text |-> given, histories |-> histories, index |-> index, input |-> input]

OthersUnchanged ==
    UNCHANGED <<pc, transformerVars, unifierVars, migemoVars, graphemeVars, patternVars, searchVars>>

\* the user edits the input element
Type ==
    /\ \E value \in HistoryTexts \ {input} : input' = value
    /\ called' = Called("type", NoText)
    /\ UNCHANGED <<historyMax, histories, index, saved>>
    /\ OthersUnchanged

Back ==
    /\ index' = back(histories, index, input).index
    /\ input' = back(histories, index, input).value
    /\ called' = Called("back", NoText)
    /\ UNCHANGED <<historyMax, histories, saved>>
    /\ OthersUnchanged

Advance ==
    /\ index' = advance(histories, index, input).index
    /\ input' = advance(histories, index, input).value
    /\ called' = Called("advance", NoText)
    /\ UNCHANGED <<historyMax, histories, saved>>
    /\ OthersUnchanged

UpdateCurrentEntry ==
    /\ \E given \in HistoryTexts \cup {NoText} :
          /\ histories' = updateCurrentEntry(histories, given, input)
          /\ called' = Called("updateCurrentEntry", given)
    /\ saved' = histories'
    /\ UNCHANGED <<historyMax, index, input>>
    /\ OthersUnchanged

AddEntry ==
    /\ \E given \in HistoryTexts \cup {NoText} :
          /\ histories' = addEntry(histories, historyMax, given, input)
          /\ called' = Called("addEntry", given)
    /\ index' = Len(histories') - 1
    /\ saved' = histories'
    /\ UNCHANGED <<historyMax, input>>
    /\ OthersUnchanged

NextHistory == Type \/ Back \/ Advance \/ UpdateCurrentEntry \/ AddEntry

SpecHistory == InitHistory /\ [][NextHistory]_vars

\* the text addEntry added: its argument, or the input value without one
AddedText == IF called.text = NoText THEN called.input ELSE called.text

\* the lines in the order addEntry leaves them before any is discarded: the
\* lines before the call with the last one updated to the input value and
\* the earlier copies of the added text removed, then the added text
LinesWithAdded ==
    Append(RemoveEarlier([called.histories EXCEPT ![Len(called.histories)] = called.input],
                         AddedText),
           AddedText)

IsSuffix(a, b) == Len(a) <= Len(b) /\ SubSeq(b, Len(b) - Len(a) + 1, Len(b)) = a

\* C17: after an addEntry(text) call with historyMax = N >= 1 the history
\* holds at most N lines, the added text is the last line, and the lines
\* kept are the newest ones: the oldest were discarded first.
AddEntryKeepsNewest ==
    called # <<>> /\ called.name = "addEntry" =>
        /\ Len(histories) <= historyMax
        /\ Last(histories) = AddedText
        /\ IsSuffix(histories, LinesWithAdded)
        /\ Len(histories) = historyMax \/ histories = LinesWithAdded

\* addEntry discarded the oldest of the lines
OldestDiscarded ==
    /\ called # <<>> /\ called.name = "addEntry"
    /\ Len(LinesWithAdded) > historyMax
    /\ Len(histories) = historyMax
    /\ historyMax > 1

\* the indexes of the lines that differ from the input value
Differing == {j \in 0..(Len(called.histories) - 1) : called.histories[j + 1] # called.input}

Earlier == {j \in Differing : j < called.index}
Later == {j \in Differing : j > called.index}

\* C18: back() moves index to the nearest earlier line whose text differs
\* from the input value and sets the input to that line, advance() does the
\* same toward the nearest later line, and when there is no such line in
\* that direction the input value is left unchanged.
BackAndAdvanceToNearestDiffering ==
    /\ called # <<>> /\ called.name = "back" =>
          IF Earlier # {}
          THEN /\ index \in Earlier /\ \A j \in Earlier : j <= index
               /\ input = histories[index + 1]
          ELSE input = called.input
    /\ called # <<>> /\ called.name = "advance" =>
          IF Later # {}
          THEN /\ index \in Later /\ \A j \in Later : j >= index
               /\ input = histories[index + 1]
          ELSE input = called.input

\* back() passed over a line equal to the input value and stopped at an
\* earlier one
BackSkippedEqualLine ==
    /\ called # <<>> /\ called.name = "back"
    /\ index < called.index - 1
    /\ input # called.input

\* C28: after applyConfig and any sequence of back, advance,
\* updateCurrentEntry and addEntry on a ShellHistory with historyMax >= 1,
\* the history is not empty and index is an integer from 0 to
\* lines.length - 1.
HistoryIndexInRange ==
    /\ Len(histories) >= 1
    /\ index \in 0..(Len(histories) - 1)

\* advance() moved index up to the last line of a history of historyMax
\* lines
AdvancedToLastLine ==
    /\ called # <<>> /\ called.name = "advance"
    /\ Len(histories) = historyMax
    /\ Len(histories) >= 2
    /\ index = Len(histories) - 1
    /\ index > called.index


(***************************************************************************)
(* lib/search.js findPosition(index, positions, exclusive) over positions  *)
(* lists with strictly ascending start offsets                             *)
(***************************************************************************)
MaxOffset == 6

RECURSIVE Ascending(_)
Ascending(S) ==
    IF S = {} THEN <<>>
    ELSE LET least == CHOOSE a \in S : \A b \in S : a <= b
         IN  << <<least>> >> \o Ascending(S \ {least})

InitPosition ==
    /\ pc = "call"
    /\ fpIndex \in -1..(MaxOffset + 2)
    /\ fpPositions \in {Ascending(S) : S \in SUBSET (0..MaxOffset)}
    /\ fpExclusive \in BOOLEAN
    /\ fpResult = 0
    /\ TransformerIdle
    /\ UnifierIdle
    /\ MigemoIdle
    /\ GraphemeIdle
    /\ PatternIdle
    /\ HistoryIdle
    /\ ExecLoopIdle
    /\ AppIdle

FindPosition ==
    /\ pc = "call"
    /\ fpResult' = findPosition(fpIndex, fpPositions, fpExclusive)
    /\ pc' = "found"
    /\ UNCHANGED <<fpIndex, fpPositions, fpExclusive, transformerVars, unifierVars, migemoVars,
                   graphemeVars, patternVars, historyVars, execLoopVars, appVars>>

NextPosition == FindPosition

SpecPosition == InitPosition /\ [][NextPosition]_vars

\* the entries a linear scan would stop at, as 0-based indexes
ScanHits(at, positions, exclusive) ==
    {i \in 0..(Len(positions) - 1) :
        LET start == positions[i + 1][1]
        IN  IF exclusive
            THEN start < at /\ (i = Len(positions) - 1 \/ at <= positions[i + 2][1])
            ELSE start <= at /\ (i = Len(positions) - 1 \/ at < positions[i + 2][1])}

\* C19: for a positions list with strictly ascending start offsets and any
\* index, findPosition returns what a linear scan returns: the first i with
\* positions[i][0] <= index < positions[i+1][0] (the last entry unbounded),
\* in exclusive mode positions[i][0] < index <= positions[i+1][0], and -1
\* when there is no such i.
FindPositionAsLinearScan ==
    pc = "found" =>
        IF ScanHits(fpIndex, fpPositions, fpExclusive) = {} THEN fpResult = -1
        ELSE /\ fpResult \in ScanHits(fpIndex, fpPositions, fpExclusive)
             /\ \A i \in ScanHits(fpIndex, fpPositions, fpExclusive) : fpResult <= i

\* an exclusive search ended at the entry before the one that starts at index
ExclusiveFoundBefore ==
    /\ pc = "found"
    /\ fpExclusive
    /\ Len(fpPositions) >= 4
    /\ fpResult >= 2
    /\ fpPositions[fpResult + 2][1] = fpIndex

(***************************************************************************)
(* lib/search.js execLoop(pattern, text, limit): every turn of the loop    *)
(* of the generator is a step                                              *)
(***************************************************************************)
MaxExecLen == 4
MaxLimit == 2

ExecPatterns == {<<".", "*">>, <<"a", "e", "+">>, <<"e", "+">>, <<"a", "'", "?">>}

InitExecLoop ==
    /\ pc = "loop"
    /\ elPattern \in ExecPatterns
    /\ elText \in SeqsUpTo({"a", "e", "'"}, MaxExecLen)
    /\ elLimit \in 1..MaxLimit
    /\ elLastIndex = 0
    /\ elYielded = <<>>
    /\ elIndexes = <<>>
    /\ TransformerIdle
    /\ UnifierIdle
    /\ MigemoIdle
    /\ GraphemeIdle
    /\ PatternIdle
    /\ HistoryIdle
    /\ PositionIdle
    /\ AppIdle

ExecLoopOthers ==
    UNCHANGED <<elPattern, elText, elLimit, transformerVars, unifierVars, migemoVars,
                graphemeVars, patternVars, historyVars, positionVars, appVars>>

\* the match is yielded, truncated to limit grapheme clusters
Yield ==
    /\ pc = "loop"
    /\ exec(RegExpOf(elPattern), elText, elLastIndex) # null0
    /\ exec(RegExpOf(elPattern), elText, elLastIndex).text # <<>>
    /\ elYielded' = Append(elYielded,
          ExecLoopTurn(exec(RegExpOf(elPattern), elText, elLastIndex), elLastIndex, elLimit).yielded)
    /\ elLastIndex' =
          ExecLoopTurn(exec(RegExpOf(elPattern), elText, elLastIndex), elLastIndex, elLimit).lastIndex
    /\ elIndexes' = Append(elIndexes, exec(RegExpOf(elPattern), elText, elLastIndex).index)
    /\ UNCHANGED pc
    /\ ExecLoopOthers

\* if (!re || re[0].length === 0) break
Break ==
    /\ pc = "loop"
    /\ \/ exec(RegExpOf(elPattern), elText, elLastIndex) = null0
       \/ exec(RegExpOf(elPattern), elText, elLastIndex).text = <<>>
    /\ pc' = "done"
    /\ UNCHANGED <<elLastIndex, elYielded, elIndexes>>
    /\ ExecLoopOthers

NextExecLoop == Yield \/ Break

SpecExecLoop == InitExecLoop /\ [][NextExecLoop]_vars

\* the pattern matches the whole of a non-empty text as one match
MatchesWholeText ==
    /\ elText # <<>>
    /\ exec(RegExpOf(elPattern), elText, 0) = [index |-> 0, text |-> elText]

\* ceil(n / limit)
CeilDiv(n, limit) == (n + limit - 1) \div limit

\* C20: when the pattern matches a text of n grapheme clusters as one match,
\* execLoop(pattern, text, limit) yields ceil(n / limit) chunks, each of at
\* most limit grapheme clusters, whose concatenation equals the text.
ExecLoopYieldsChunks ==
    pc = "done" /\ MatchesWholeText =>
        /\ Len(elYielded) = CeilDiv(Len(Segment(elText)), elLimit)
        /\ \A i \in 1..Len(elYielded) : Len(Segment(elYielded[i])) <= elLimit
        /\ Flatten(elYielded) = elText

\* C26: the matches one run of execLoop yields do not overlap and are in
\* increasing position: each starts at or after the end of the text of the
\* match yielded before it, truncated or not, also when a truncated match
\* did not start at the previous lastIndex.
YieldedInIncreasingPosition ==
    \A i \in 2..Len(elYielded) :
        elIndexes[i] >= elIndexes[i - 1] + Len(elYielded[i - 1])


(***************************************************************************)
(* lib/content.js with lib/panel.js: the user opens the panel, types,      *)
(* commits and escapes, the document mutates, and the scans of the page    *)
(* and the Migemo answers arrive in any order.                             *)
(***************************************************************************)
MaxScans == 2

CommitTexts == {"", "a"}
CommitValues == [text : CommitTexts, strict : BOOLEAN, mode : {"regex", "migemo"}]

Content ==
    [poolPromise |-> ctPoolPromise, poolSets |-> ctPoolSets, scans |-> ctScans,
     promise |-> ctPromise, data |-> ctData, opened |-> ctOpened, value |-> ctValue,
     last |-> ctLast, foundItems |-> ctFoundItems, running |-> ctRunning,
     matched |-> ctMatched, stored |-> ctStored, pending |-> ctPending]

SetContent(c) ==
    /\ ctPoolPromise' = c.poolPromise
    /\ ctPoolSets' = c.poolSets
    /\ ctScans' = c.scans
    /\ ctPromise' = c.promise
    /\ ctData' = c.data
    /\ ctOpened' = c.opened
    /\ ctValue' = c.value
    /\ ctLast' = c.last
    /\ ctFoundItems' = c.foundItems
    /\ ctRunning' = c.running
    /\ ctMatched' = c.matched
    /\ ctStored' = c.stored
    /\ ctPending' = c.pending
    /\ UNCHANGED <<pc, aroundContentVars>>

InitContent ==
    /\ pc = "content"
    /\ ContentIdle
    /\ AroundContentIdle

\* panel.open(): applyConfig sets the input to the last line of the history
\* and commits it
Open ==
    /\ ~ctOpened
    /\ ctPromise # 0 \/ Len(ctScans) < MaxScans
    /\ \E v \in CommitValues :
          SetContent(commitPanelTextCore(
              [Content EXCEPT !.opened = TRUE, !.value = v, !.pending = ""], v, FALSE))

\* the input event of the text field
Input ==
    /\ ctOpened
    /\ ctPromise # 0 \/ Len(ctScans) < MaxScans
    /\ \E v \in CommitValues \ {ctValue} :
          SetContent(commitPanelText([Content EXCEPT !.value = v], v, FALSE))

\* Enter or the search button
Enter ==
    /\ ctOpened
    /\ ctPromise # 0 \/ Len(ctScans) < MaxScans
    /\ SetContent(commitPanelText(Content, ctValue, TRUE))

\* Escape in the panel or in the page
Escape ==
    /\ pc = "content"
    /\ SetContent(handleEscape(Content))

\* the debounced callback of the MutationObserver
Mutation ==
    /\ pc = "content"
    /\ SetContent(handleMutation(Content))

ScanBody ==
    \E id \in 1..Len(ctScans) :
        /\ ctScans[id].stage = "body"
        /\ SetContent(BodyScanned(Content, id))

ScanSub ==
    \E id \in 1..Len(ctScans) :
        /\ ctScans[id].stage = "sub"
        /\ SetContent(SubScanned(Content, id))

\* the background page answered the query of the first getPattern
PatternReady ==
    /\ ctRunning.pc = "pattern"
    /\ SetContent(AfterPattern(Content))

\* the background page answered the query of the getPattern of the loop
LoopPatternReady ==
    /\ ctRunning.pc = "loop"
    /\ SetContent(ListMade(Content))

NextContent ==
    \/ Open \/ Input \/ Enter \/ Escape \/ Mutation
    \/ ScanBody \/ ScanSub \/ PatternReady \/ LoopPatternReady

SpecContent == InitContent /\ [][NextContent]_vars

\* the scans and the answers of the background page arrive
SpecContentFair ==
    /\ SpecContent
    /\ WF_vars(ScanBody) /\ WF_vars(ScanSub)
    /\ WF_vars(PatternReady) /\ WF_vars(LoopPatternReady)

\* C22: whenever a commit is matched against cached document text, the text
\* was built with the strictness of the commit: a strict query is never
\* matched against unified text, a query that is not strict never against
\* exact text.
MatchedWithSameStrictness ==
    ctMatched.kind # NoData => ctMatched.kind = KindOf(ctMatched.strict)

\* C24: whenever the value of a getSearchInfo promise is stored as the search
\* data of the content script, its sets were produced by that same scan (not
\* undefined, not of another scan), also when close() or another
\* getSearchInfo call happened during the scan.
StoredSetsOfSameScan ==
    ctStored.scan # 0 => ctStored.sets = ctStored.scan

\* C25: every final commit of a non-empty text leads to the found-item list
\* for that text without further input of the user, also when it is issued
\* during the scan of the page or during an earlier onCommitText invocation.
FinalCommitListed ==
    (ctPending # "") ~> (ctPending = "")


(***************************************************************************)
(* background.js: the migemoQuery messages of the content scripts arrive   *)
(* at any time, and the fetch of the dictionary ends or fails.             *)
(***************************************************************************)
MaxQueries == 4

BackgroundQueries == {"a", "k"}

InitBackground ==
    /\ pc = "background"
    /\ BackgroundIdle
    /\ AroundBackgroundIdle

\* chrome.runtime.onMessage with type migemoQuery: handleMigemoQuery up to
\* its await, or to its end
Message ==
    /\ Len(bgLoading) + Len(bgResponses) < MaxQueries
    /\ \E query \in BackgroundQueries :
          IF bgMigemo = MigemoUndefined
          THEN /\ bgMigemo' = NewMigemo
               /\ bgLoading' = Append(bgLoading, query)
               /\ UNCHANGED bgResponses
          ELSE /\ bgResponses' = Append(bgResponses, MigemoAnswer(bgMigemo, query))
               /\ UNCHANGED <<bgMigemo, bgLoading>>
    /\ UNCHANGED <<pc, aroundBackgroundVars>>

\* loadMigemoDict() resolved and the dictionary was constructed
DictLoaded ==
    /\ bgLoading # <<>>
    /\ bgMigemo' = setDict(bgMigemo)
    /\ bgResponses' = Append(bgResponses, MigemoAnswer(setDict(bgMigemo), Head(bgLoading)))
    /\ bgLoading' = Tail(bgLoading)
    /\ UNCHANGED <<pc, aroundBackgroundVars>>

\* loadMigemoDict() rejected or the constructor threw: catch (err)
DictFailed ==
    /\ bgLoading # <<>>
    /\ bgMigemo' = MigemoNull
    /\ bgResponses' = Append(bgResponses, MigemoAnswer(MigemoNull, Head(bgLoading)))
    /\ bgLoading' = Tail(bgLoading)
    /\ UNCHANGED <<pc, aroundBackgroundVars>>

NextBackground == Message \/ DictLoaded \/ DictFailed

SpecBackground == InitBackground /\ [][NextBackground]_vars

\* C23: every migemoQuery message is answered with a pattern of a Migemo
\* instance whose dictionary is loaded, or with null when loading failed; a
\* query that arrives while the first one awaits the dictionary is never
\* answered by an instance without dictionary.
AnsweredWithDictionary ==
    \A i \in 1..Len(bgResponses) :
        IF bgResponses[i].migemoQuery = "pattern" THEN bgResponses[i].dict
        ELSE bgMigemo = MigemoNull


(***************************************************************************)
(* lib/content.js: handleCommitText runs the loop for the matches execLoop *)
(* yields over one set, after the sets before it left their found items.   *)
(***************************************************************************)
MaxMatches == 4
MaxGap == 1

InitFound ==
    /\ pc = "matching"
    /\ fiType \in {"body", "iframe"}
    /\ fiType = "body"
          => fiFoundItems \in {<<>>, <<[for |-> -1, target |-> NoTarget]>>}
    /\ fiType = "iframe"
          => fiFoundItems \in {<<>>, <<[for |-> -1, target |-> NoTarget]>>,
                               <<[for |-> -1, target |-> "iframe0"]>>}
    /\ fiLastMatch = NoMatch
    /\ fiMatched = 0
    /\ fiBefore = <<>>
    /\ fiRe = NoMatch
    /\ AroundFoundIdle

\* the body of the loop for the next match, which starts at or after the
\* end of the match before it
Match ==
    /\ pc = "matching"
    /\ fiMatched < MaxMatches
    /\ \E gap \in 0..MaxGap, graphemes \in 1..2, valid \in BOOLEAN :
          LET re == [id |-> fiMatched + 1,
                     index |-> IF fiRe = NoMatch THEN gap ELSE fiRe.index + fiRe.length + gap,
                     length |-> graphemes, graphemes |-> graphemes]
          IN  /\ fiRe' = re
              /\ fiBefore' = [foundItems |-> fiFoundItems, lastMatch |-> fiLastMatch]
              /\ fiFoundItems' = FoundItemsAfter(fiFoundItems, fiLastMatch, re, fiType, valid)
              /\ fiLastMatch' = LastMatchAfter(fiLastMatch, re)
    /\ fiMatched' = fiMatched + 1
    /\ UNCHANGED <<pc, fiType, aroundFoundVars>>

\* the loop over the set ends
Close ==
    /\ pc = "matching"
    /\ pc' = "closed"
    /\ UNCHANGED <<foundVars, aroundFoundVars>>

NextFound == Match \/ Close

SpecFound == InitFound /\ [][NextFound]_vars

\* the items of the list before the last match that are not in it after
\* it, by the match they were made for
RemovedItems ==
    {fiBefore.foundItems[i].for : i \in 1..Len(fiBefore.foundItems)}
    \ {fiFoundItems[i].for : i \in 1..Len(fiFoundItems)}

\* C27: when a match of one grapheme is merged into the adjacent match
\* before it, the found item removed is the item added for that match and
\* no other item is removed, also when that match added no item.
MergeRemovesItemOfLastMatch ==
    fiBefore # <<>> /\ Combined(fiBefore.lastMatch, fiRe) =>
        RemovedItems \subseteq {fiBefore.lastMatch.id}


(***************************************************************************)
(* jsmigemo: Migemo.parseQuery(query) over the queries of lower and upper  *)
(* case letters and spaces.                                                *)
(***************************************************************************)
MaxParseLen == 4

ParseChars == {"a", "b", "A", "B", " "}

InitParse ==
    /\ pc = "call"
    /\ pqQuery \in SeqsUpTo(ParseChars, MaxParseLen)
    /\ pqWords = <<>>
    /\ AroundParseIdle

ParseQuery ==
    /\ pc = "call"
    /\ pqWords' = parseQuery(pqQuery)
    /\ pc' = "parsed"
    /\ UNCHANGED <<pqQuery, aroundParseVars>>

NextParse == ParseQuery

SpecParse == InitParse /\ [][NextParse]_vars

WithoutWhite(s) == SelectSeq(s, LAMBDA c : ~IsWhite(c))

\* C29: parseQuery assigns every character of the query that is not white
\* space to exactly one sub-word, in order: the sub-words concatenated,
\* without white space, are the query without its white space.
ParseQueryKeepsEveryCharacter ==
    pc = "parsed" => WithoutWhite(Flatten(pqWords)) = WithoutWhite(pqQuery)


(***************************************************************************)
(* jsmigemo: new BitVector(words, sizeInBits).rank(pos, b) for sizes at    *)
(* and next to the multiples of 32, 64 and 512 and 0 <= pos <= sizeInBits. *)
(***************************************************************************)
MaxBlocks == 1

BitSizes ==
    {s \in 0..(512 * MaxBlocks) : s % 64 \in {0, 1, 32, 63} /\ (s \div 64) % 8 \in {0, 1, 7}}

\* the bits of the vectors: all set, none, every third, the upper words
BitPatterns == {"ones", "none", "thirds", "upper"}

BitOf(kind, p) ==
    CASE kind = "ones" -> 1
      [] kind = "none" -> 0
      [] kind = "thirds" -> IF p % 3 = 0 THEN 1 ELSE 0
      [] kind = "upper" -> IF p % 64 >= 32 THEN 1 ELSE 0

InitRank ==
    /\ pc = "call"
    /\ \E size \in BitSizes, kind \in BitPatterns :
           bvVector = BitVector(WordsOf([p \in 1..size |-> BitOf(kind, p - 1)]), size)
    /\ bvPos = 0
    /\ bvB = FALSE
    /\ bvRank = 0
    /\ AroundRankIdle

Rank ==
    /\ pc = "call"
    /\ \E pos \in 0..bvVector.sizeInBits, b \in BOOLEAN :
           /\ bvPos' = pos
           /\ bvB' = b
           /\ bvRank' = rankBySums(bvVector, pos, b)
    /\ pc' = "ranked"
    /\ UNCHANGED <<bvVector, aroundRankVars>>

NextRank == Rank

SpecRank == InitRank /\ [][NextRank]_vars

SetBitsBelow(bv, pos) == Cardinality({p \in 0..(pos - 1) : get(bv, p)})

\* C30: for every size and every pos in 0..sizeInBits, rank(pos, true) is
\* the number of set bits below pos and rank(pos, false) is pos minus it.
RankCountsBitsBelow ==
    pc = "ranked" =>
        bvRank = IF bvB THEN SetBitsBelow(bvVector, bvPos)
                 ELSE bvPos - SetBitsBelow(bvVector, bvPos)

\* the same for the calls with pos below the end of the sb array
RankCountsBitsBelowInsideSb ==
    pc = "ranked" /\ ~PastSb(bvVector, bvPos) =>
        bvRank = IF bvB THEN SetBitsBelow(bvVector, bvPos)
                 ELSE bvPos - SetBitsBelow(bvVector, bvPos)

=============================================================================
